---- MODULE Spec2Model ----
(***************************************************************************)
(* Verification model of the mockup-design backend: the credit ledger,     *)
(* the mockup life cycle (domain layer, HTTP endpoints, background tasks), *)
(* credit purchases and subscriptions with their payment webhooks.         *)
(*                                                                         *)
(* The relational store is modelled as tables (sequences of rows, the row  *)
(* id is the index).  Every handler is a sequence of steps, one step per   *)
(* awaited database or service call, executed by a request slot; slots     *)
(* interleave between steps exactly as coroutines interleave at awaits.    *)
(* The clock counts minutes.                                               *)
(***************************************************************************)
EXTENDS Integers, Sequences, FiniteSets, TLC

(* ------------------------------ bounds --------------------------------- *)
NUsers == 2
NReq == 2
MaxOps == 2
MaxTicks == 2
MaxCredits == 2
MaxMockups == 1
MaxAmount == 2
MaxBillingOps == 3
MaxPayments == 2
MaxSubs == 2
MaxSubOps == 4
MaxWebhookOps == 3
MaxAuthOps == 4
MaxRateOps == 6
MaxGrantOps == 4
MaxSweepOps == 3
MaxProducts == 2
MaxCatalogOps == 3
MaxConfigOps == 2
MaxHistoryOps == 3
MaxBlockOps == 7
MaxBlockTicks == 6

(* ------------------------- program constants --------------------------- *)
STUCK_MINUTES == 10
FREE_CREDITS_ON_SIGNUP == 3
CREDIT_EXPIRY_DAYS == 365
SUBSCRIPTION_PERIOD_DAYS == 30
ACCESS_TOKEN_EXPIRE_MINUTES == 30
REFRESH_TOKEN_EXPIRE_DAYS == 7
RESET_TOKEN_EXPIRE_MINUTES == 60
RATE_LIMIT_LOGIN_PER_MINUTE == 5
RATE_LIMIT_REGISTER_PER_HOUR == 3
RATE_LIMIT_MOCKUP_GENERATION_PER_HOUR == 50
RATE_LIMIT_PAYMENTS_PER_HOUR == 10
RATE_LIMIT_GENERAL_PER_MINUTE == 60
FAILED_RETENTION_DAYS == 7
WEBHOOK_TOLERANCE == 300
NoExpiry == -1
NullId == 0

NULL == "NULL"
\* the stored last_login of a user who never logged in
NoLogin == -1
Url == "url"

Users == 1..NUsers
Reqs == 1..NReq
Days(n) == n * 24 * 60
TickStep == STUCK_MINUTES + 1

VARIABLES now, ticks, opsLeft, credits, mockups, req, resp, aiCalls,
          role, payments, intents, subs,
          users, tokens,
          clock, redis_store, memory_store, requests,
          products, hook, ai, history

dbvars == <<credits, mockups>>
billvars == <<role, payments, intents, subs>>
authvars == <<users, tokens>>
ratevars == <<clock, redis_store, memory_store, requests>>
catalogvars == <<products>>
svcvars == <<hook, ai>>
histvars == <<history>>
vars == <<now, ticks, opsLeft, credits, mockups, req, resp, aiCalls,
          role, payments, intents, subs, users, tokens,
          clock, redis_store, memory_store, requests, products, hook, ai, history>>

(* ------------------------------ helpers -------------------------------- *)
RECURSIVE SumOver(_, _)
SumOver(f, S) ==
    IF S = {} THEN 0
    ELSE LET x == CHOOSE y \in S : TRUE IN f[x] + SumOver(f, S \ {x})

CreditIds == DOMAIN credits
MockupIds == {i \in DOMAIN mockups : mockups[i].present}

IdleReq == [pc |-> "idle", user |-> 0, mid |-> 0, cid |-> 0, used |-> 0, todo |-> {},
            ready |-> FALSE]

\* a row of the mockup table as the create paths insert it
NewMockup(u, c, product, logo) ==
    [present |-> TRUE, user |-> u, name |-> "n1", logo_color |-> "c1",
     status |-> "PENDING", credit_id |-> c,
     product_image_url |-> product, logo_image_url |-> logo,
     result_image_url |-> NULL, error_message |-> NULL, updated_at |-> now,
     created_at |-> now, product_id |-> NullId]

\* "if not mockup.product_image_url or not mockup.logo_image_url"
ImagesReady_productOnly(m) == m.product_image_url # NULL
ImagesReady(m) == m.product_image_url # NULL /\ m.logo_image_url # NULL

\* outcomes of AIService.generate_mockup: a result URL, or an exception
\* (always an exception when a source image URL is absent)
GenerateOutcomes(ready) == IF ready THEN {"ok", "fail"} ELSE {"fail"}

\* the two row updates of the generate endpoint: result recorded, error recorded
GenerateCompleted(m) ==
    [m EXCEPT !.status = "COMPLETED", !.result_image_url = Url, !.updated_at = now]

GenerateFailed_swallowed(m) == m
GenerateFailed(m) ==
    [m EXCEPT !.status = "FAILED", !.error_message = "error", !.updated_at = now]

\* MockupModel.get_stuck_mockups: PROCESSING and not updated for 10 minutes
Stuck_anyAge(m) == m.present /\ m.status = "PROCESSING"
Stuck(m) ==
    /\ m.present
    /\ m.status = "PROCESSING"
    /\ m.updated_at < now - STUCK_MINUTES
NoResp == [op |-> "none", result |-> "none", user |-> 0, mid |-> 0,
           cid |-> 0, read |-> 0, stale |-> FALSE, spent |-> 0]

\* expires_at ascending, NULL last (the store's default ordering of nulls)
ExpiryLE(a, b) ==
    \/ b = NoExpiry
    \/ a # NoExpiry /\ a <= b

\* the rows a query ordered by expires_at may return first (ties are unordered)
FirstByExpiry(S) == {i \in S : \A j \in S : ExpiryLE(credits[i].expires_at, credits[j].expires_at)}

\* CreditModel.get_available_credits: used < amount, expiry absent or > now
get_available_credits(u) ==
    {i \in CreditIds : /\ credits[i].user = u
                       /\ credits[i].used < credits[i].amount
                       /\ \/ credits[i].expires_at = NoExpiry
                          \/ credits[i].expires_at > now}

\* MockupModel._get_available_credit: used < amount, skipped when expiry < now
get_available_credit(u) ==
    FirstByExpiry({i \in CreditIds : /\ credits[i].user = u
                                     /\ credits[i].used < credits[i].amount
                                     /\ ~(/\ credits[i].expires_at # NoExpiry
                                          /\ credits[i].expires_at < now)})

\* the value a consuming request writes: the value it read plus one
DebitValue_atomic(readUsed, storedUsed) == storedUsed + 1
DebitValue(readUsed, storedUsed) == readUsed + 1

\* the value a refund writes: the value it read minus one
RefundValue(readUsed, storedUsed) == readUsed - 1

\* refund guard: "if not credit or credit.used <= 0: return False"
RefundAllowed_unguarded(c) == TRUE
RefundAllowed(c) == c.used > 0

\* the same filter if a missing expiry compared as "earlier than now"
ExpiredUnused_nullExpired(i) ==
    /\ credits[i].expires_at < now
    /\ credits[i].used < credits[i].amount

\* expire_old_credits / cleanup_expired_credits filter
ExpiredUnused(i) ==
    /\ credits[i].expires_at # NoExpiry
    /\ credits[i].expires_at < now
    /\ credits[i].used < credits[i].amount

(* ------------------------- accounts and limiter ------------------------ *)
\* e-mail addresses are numbered; user u first registered with address u
Emails == 1..(NUsers + 1)
Passwords == {"pw1", "pw2"}

\* get_password_hash / verify_password: one-way, equal only for the same password
get_password_hash(password) == <<"hash", password>>
verify_password(password, password_hash) == password_hash = get_password_hash(password)

UserRow(email, password) ==
    [email |-> email, password_hash |-> get_password_hash(password),
     is_active |-> TRUE, last_login |-> NoLogin]

\* the limiter before any request
IdleLimiter ==
    /\ clock = 0
    /\ redis_store = <<>>
    /\ memory_store = <<>>
    /\ requests = <<>>

\* the simulation history of the runs that do not write it
NoHistory == history = <<>>

\* the product table of the runs that do not use the catalogue
EmptyCatalog == products = <<>>

\* a signature header element that is neither t= nor v1=, and the signature
\* of no message
NoSig == <<"", 0, "">>
OtherElement == [kind |-> "other", num |-> 0, sig |-> NoSig, ok |-> TRUE]

\* the services before any call
NoHook == [payload |-> "p1", secret |-> "s1", header |-> <<OtherElement>>,
           current_time |-> 0, result |-> "none"]
NoAi == [called |-> FALSE, use_ai |-> TRUE, api_key |-> FALSE, remote |-> "image",
         product_ok |-> TRUE, logo_ok |-> TRUE, storage_ok |-> TRUE, user_id |-> 0,
         result |-> [status |-> "none", error |-> "none", path |-> "none", url |-> <<>>]]
NoCalls == hook = NoHook /\ ai = NoAi

\* initial accounts and limiter of the runs that do not exercise them: every
\* user of Users holds an account
NoAuthTraffic ==
    /\ users = [u \in Users |-> UserRow(u, "pw1")]
    /\ tokens = {}
    /\ IdleLimiter
    /\ NoHistory
    /\ EmptyCatalog
    /\ NoCalls

(* --------------------------- request slots ----------------------------- *)
Invoke(r, op, u, m, c, pc) ==
    /\ req[r].pc = "idle"
    /\ opsLeft > 0
    /\ opsLeft' = opsLeft - 1
    /\ req' = [req EXCEPT ![r] = [IdleReq EXCEPT !.pc = pc, !.user = u, !.mid = m, !.cid = c]]
    /\ resp' = [resp EXCEPT ![r] = [NoResp EXCEPT !.op = op, !.result = "pending",
                                                  !.user = u, !.mid = m]]
    /\ UNCHANGED <<now, ticks, credits, mockups, aiCalls, billvars, authvars, ratevars, catalogvars, svcvars, histvars>>

Return(r, result) ==
    /\ req' = [req EXCEPT ![r] = IdleReq]
    /\ resp' = [resp EXCEPT ![r].result = result]

Goto(r, pc) ==
    /\ req' = [req EXCEPT ![r].pc = pc]
    /\ UNCHANGED resp

\* write `used` of credit c; the response remembers what was read and
\* whether the stored value had changed since it was read
WriteUsed(r, c, v) ==
    credits' = [credits EXCEPT ![c].used = v]

NoteWrite(r, c, result, units) ==
    resp' = [resp EXCEPT ![r] = [@ EXCEPT !.result = result, !.cid = c,
                                          !.read = req[r].used,
                                          !.stale = (credits[c].used # req[r].used),
                                          !.spent = @ + units]]

Frame == UNCHANGED <<now, ticks, opsLeft, billvars, authvars, ratevars, catalogvars, svcvars, histvars>>

(* ----------------------- CreditModel.use_credit ------------------------ *)
UseCreditInvoke(r) ==
    \E u \in Users : Invoke(r, "use_credit", u, 0, 0, "use_credit:find")

UseCreditFind(r) ==
    /\ req[r].pc = "use_credit:find"
    /\ LET avail == get_available_credits(req[r].user) IN
       IF avail = {}
       THEN Return(r, "None")
       ELSE \E c \in FirstByExpiry(avail) :
              /\ req' = [req EXCEPT ![r].pc = "use_credit:update", ![r].cid = c,
                                    ![r].used = credits[c].used]
              /\ UNCHANGED resp
    /\ UNCHANGED <<credits, mockups, aiCalls>>
    /\ Frame

UseCreditUpdate(r) ==
    /\ req[r].pc = "use_credit:update"
    /\ WriteUsed(r, req[r].cid, DebitValue(req[r].used, credits[req[r].cid].used))
    /\ NoteWrite(r, req[r].cid, "ok", 1)
    /\ req' = [req EXCEPT ![r] = IdleReq]
    /\ UNCHANGED <<mockups, aiCalls>>
    /\ Frame

(* ---------------------- CreditModel.refund_credit ---------------------- *)
RefundCreditInvoke(r) ==
    \E c \in 1..MaxCredits : Invoke(r, "refund_credit", 0, 0, c, "refund_credit:find")

RefundCreditFind(r) ==
    /\ req[r].pc = "refund_credit:find"
    /\ IF req[r].cid \notin CreditIds \/ ~RefundAllowed(credits[req[r].cid])
       THEN Return(r, "False")
       ELSE /\ req' = [req EXCEPT ![r].pc = "refund_credit:update",
                                  ![r].used = credits[req[r].cid].used]
            /\ UNCHANGED resp
    /\ UNCHANGED <<credits, mockups, aiCalls>>
    /\ Frame

RefundCreditUpdate(r) ==
    /\ req[r].pc = "refund_credit:update"
    /\ WriteUsed(r, req[r].cid, RefundValue(req[r].used, credits[req[r].cid].used))
    /\ NoteWrite(r, req[r].cid, "True", -1)
    /\ req' = [req EXCEPT ![r] = IdleReq]
    /\ UNCHANGED <<mockups, aiCalls>>
    /\ Frame

(* -------------------- CreditModel.expire_old_credits ------------------- *)
ExpireInvoke(r) ==
    Invoke(r, "expire_old_credits", 0, 0, 0, "expire:find")

ExpireFind(r) ==
    /\ req[r].pc = "expire:find"
    /\ LET expired == {i \in CreditIds : ExpiredUnused(i)} IN
       IF expired = {}
       THEN Return(r, "0")
       ELSE /\ req' = [req EXCEPT ![r].pc = "expire:update", ![r].todo = expired]
            /\ UNCHANGED resp
    /\ UNCHANGED <<credits, mockups, aiCalls>>
    /\ Frame

ExpireUpdate(r) ==
    /\ req[r].pc = "expire:update"
    /\ \E c \in req[r].todo :
         /\ WriteUsed(r, c, credits[c].amount)
         /\ IF req[r].todo = {c}
            THEN /\ req' = [req EXCEPT ![r] = IdleReq]
                 /\ resp' = [resp EXCEPT ![r].result = "swept"]
            ELSE /\ req' = [req EXCEPT ![r].todo = @ \ {c}]
                 /\ UNCHANGED resp
    /\ UNCHANGED <<mockups, aiCalls>>
    /\ Frame

(* -------------------- MockupModel.create_mockup ------------------------ *)
CreateMockupInvoke(r) ==
    /\ Len(mockups) < MaxMockups
    /\ \E u \in Users : Invoke(r, "create_mockup", u, 0, 0, "create_mockup:credit")

CreateMockupCredit(r) ==
    /\ req[r].pc = "create_mockup:credit"
    /\ LET cands == get_available_credit(req[r].user) IN
       IF cands = {}
       THEN Return(r, "InsufficientCredits")
       ELSE \E c \in cands :
              /\ req' = [req EXCEPT ![r].pc = "create_mockup:create", ![r].cid = c,
                                    ![r].used = credits[c].used]
              /\ UNCHANGED resp
    /\ UNCHANGED <<credits, mockups, aiCalls>>
    /\ Frame

CreateMockupCreate(r) ==
    /\ req[r].pc = "create_mockup:create"
    /\ mockups' = Append(mockups, NewMockup(req[r].user, req[r].cid, Url, Url))
    /\ req' = [req EXCEPT ![r].pc = "create_mockup:debit", ![r].mid = Len(mockups) + 1]
    /\ resp' = [resp EXCEPT ![r].mid = Len(mockups) + 1]
    /\ UNCHANGED <<credits, aiCalls>>
    /\ Frame

CreateMockupDebit(r) ==
    /\ req[r].pc = "create_mockup:debit"
    /\ WriteUsed(r, req[r].cid, DebitValue(req[r].used, credits[req[r].cid].used))
    /\ NoteWrite(r, req[r].cid, "ok", 1)
    /\ req' = [req EXCEPT ![r] = IdleReq]
    /\ UNCHANGED <<mockups, aiCalls>>
    /\ Frame

(* ------------------ MockupModel.retry_failed_mockup -------------------- *)
RetryInvoke(r) ==
    \E u \in Users, m \in 1..MaxMockups :
        Invoke(r, "retry_failed_mockup", u, m, 0, "retry:find")

\* the same step without the status test of `mockup.status != FAILED`
RetryFind_anyStatus(r) ==
    /\ req[r].pc = "retry:find"
    /\ LET m == req[r].mid IN
       IF \/ m \notin MockupIds
          \/ mockups[m].user # req[r].user
       THEN Return(r, "False")
       ELSE Goto(r, "retry:credit")
    /\ UNCHANGED <<credits, mockups, aiCalls>>
    /\ Frame

RetryFind(r) ==
    /\ req[r].pc = "retry:find"
    /\ LET m == req[r].mid IN
       IF \/ m \notin MockupIds
          \/ mockups[m].user # req[r].user
          \/ mockups[m].status # "FAILED"
       THEN Return(r, "False")
       ELSE Goto(r, "retry:credit")
    /\ UNCHANGED <<credits, mockups, aiCalls>>
    /\ Frame

RetryCredit(r) ==
    /\ req[r].pc = "retry:credit"
    /\ LET cands == get_available_credit(req[r].user) IN
       IF cands = {}
       THEN Return(r, "InsufficientCredits")
       ELSE \E c \in cands :
              /\ req' = [req EXCEPT ![r].pc = "retry:debit", ![r].cid = c,
                                    ![r].used = credits[c].used]
              /\ UNCHANGED resp
    /\ UNCHANGED <<credits, mockups, aiCalls>>
    /\ Frame

RetryDebit(r) ==
    /\ req[r].pc = "retry:debit"
    /\ WriteUsed(r, req[r].cid, DebitValue(req[r].used, credits[req[r].cid].used))
    /\ NoteWrite(r, req[r].cid, "pending", 1)
    /\ req' = [req EXCEPT ![r].pc = "retry:update"]
    /\ UNCHANGED <<mockups, aiCalls>>
    /\ Frame

RetryUpdate(r) ==
    /\ req[r].pc = "retry:update"
    /\ LET m == req[r].mid IN
       IF m \notin MockupIds
       THEN /\ Return(r, "error")
            /\ UNCHANGED mockups
       ELSE /\ mockups' = [mockups EXCEPT ![m] =
                             [@ EXCEPT !.status = "PENDING", !.credit_id = req[r].cid,
                                       !.error_message = NULL, !.result_image_url = NULL,
                                       !.updated_at = now]]
            /\ Return(r, "True")
    /\ UNCHANGED <<credits, aiCalls>>
    /\ Frame

(* --------------------- MockupModel.refund_mockup ----------------------- *)
\* reset_stuck_mockups calls refund_mockup for each mockup of its list and
\* then goes on with the next one
SweepNext(r, left) ==
    IF left = {}
    THEN /\ req' = [req EXCEPT ![r] = IdleReq]
         /\ resp' = [resp EXCEPT ![r].result = "swept"]
    ELSE /\ req' = [req EXCEPT ![r] = [IdleReq EXCEPT !.pc = "reset_stuck:fail", !.todo = left]]
         /\ UNCHANGED resp

RefundMockupReturn(r, result) ==
    IF resp[r].op = "reset_stuck_mockups"
    THEN SweepNext(r, req[r].todo)
    ELSE Return(r, result)

RefundMockupInvoke(r) ==
    \E m \in 1..MaxMockups : Invoke(r, "refund_mockup", 0, m, 0, "refund_mockup:find")

RefundMockupFind(r) ==
    /\ req[r].pc = "refund_mockup:find"
    /\ LET m == req[r].mid IN
       IF m \notin MockupIds \/ mockups[m].credit_id = NullId
       THEN RefundMockupReturn(r, "False")
       ELSE /\ req' = [req EXCEPT ![r].pc = "refund_mockup:credit",
                                  ![r].cid = mockups[m].credit_id]
            /\ UNCHANGED resp
    /\ UNCHANGED <<credits, mockups, aiCalls>>
    /\ Frame

RefundMockupCredit(r) ==
    /\ req[r].pc = "refund_mockup:credit"
    /\ IF req[r].cid \notin CreditIds \/ ~RefundAllowed(credits[req[r].cid])
       THEN RefundMockupReturn(r, "False")
       ELSE /\ req' = [req EXCEPT ![r].pc = "refund_mockup:update",
                                  ![r].used = credits[req[r].cid].used]
            /\ UNCHANGED resp
    /\ UNCHANGED <<credits, mockups, aiCalls>>
    /\ Frame

RefundMockupUpdate(r) ==
    /\ req[r].pc = "refund_mockup:update"
    /\ WriteUsed(r, req[r].cid, RefundValue(req[r].used, credits[req[r].cid].used))
    /\ IF resp[r].op = "reset_stuck_mockups"
       THEN /\ req' = [req EXCEPT ![r] =
                         IF req[r].todo = {} THEN IdleReq
                         ELSE [IdleReq EXCEPT !.pc = "reset_stuck:fail", !.todo = req[r].todo]]
            /\ resp' = [resp EXCEPT ![r] = [@ EXCEPT
                          !.result = IF req[r].todo = {} THEN "swept" ELSE @,
                          !.cid = req[r].cid, !.read = req[r].used,
                          !.stale = (credits[req[r].cid].used # req[r].used),
                          !.spent = @ - 1]]
       ELSE /\ NoteWrite(r, req[r].cid, "True", -1)
            /\ req' = [req EXCEPT ![r] = IdleReq]
    /\ UNCHANGED <<mockups, aiCalls>>
    /\ Frame

(* ------------------- MockupModel.reset_stuck_mockups ------------------- *)
SweepInvoke(r) ==
    Invoke(r, "reset_stuck_mockups", 0, 0, 0, "reset_stuck:find")

SweepFind(r) ==
    /\ req[r].pc = "reset_stuck:find"
    /\ LET stuck == {m \in DOMAIN mockups : Stuck(mockups[m])} IN
       IF stuck = {}
       THEN Return(r, "0")
       ELSE /\ req' = [req EXCEPT ![r].pc = "reset_stuck:fail", ![r].todo = stuck]
            /\ UNCHANGED resp
    /\ UNCHANGED <<credits, mockups, aiCalls>>
    /\ Frame

\* update_mockup_status(FAILED, "Processing timeout"); a failing update is
\* swallowed by the loop's except clause
SweepFail(r) ==
    /\ req[r].pc = "reset_stuck:fail"
    /\ \E m \in req[r].todo :
         IF m \in MockupIds
         THEN /\ mockups' = [mockups EXCEPT ![m] =
                               [@ EXCEPT !.status = "FAILED",
                                         !.error_message = "Processing timeout",
                                         !.updated_at = now]]
              /\ req' = [req EXCEPT ![r].pc = "refund_mockup:find", ![r].mid = m,
                                    ![r].todo = @ \ {m}]
              /\ UNCHANGED resp
         ELSE /\ SweepNext(r, req[r].todo \ {m})
              /\ UNCHANGED mockups
    /\ UNCHANGED <<credits, aiCalls>>
    /\ Frame

(* ---------------------- worker: health_check_task ---------------------- *)
\* the refunds of the task's loop over the stuck mockups S, one after another
RECURSIVE RefundAll(_, _)
RefundAll(cs, S) ==
    IF S = {} THEN cs
    ELSE LET m == CHOOSE x \in S : TRUE
             c == mockups[m].credit_id
         IN  RefundAll(IF c \in DOMAIN cs /\ cs[c].used > 0
                       THEN [cs EXCEPT ![c].used = @ - 1]
                       ELSE cs,
                       S \ {m})

\* the periodic task, run while no request is in progress
HealthCheckTask(r) ==
    /\ req[r].pc = "idle"
    /\ opsLeft > 0
    /\ opsLeft' = opsLeft - 1
    /\ LET stuck_mockups == {m \in MockupIds : Stuck(mockups[m])}
       IN  /\ mockups' = [m \in DOMAIN mockups |->
                             IF m \in stuck_mockups
                             THEN [mockups[m] EXCEPT !.status = "FAILED",
                                                     !.error_message = "Processing timeout",
                                                     !.updated_at = now]
                             ELSE mockups[m]]
           /\ credits' = RefundAll(credits, stuck_mockups)
    /\ resp' = [resp EXCEPT ![r] = [NoResp EXCEPT !.op = "health_check_task", !.result = "ok"]]
    /\ UNCHANGED <<now, ticks, req, aiCalls, billvars, authvars, ratevars, catalogvars, svcvars, histvars>>

(* ------------------------ API: POST /mockups --------------------------- *)
\* the credit check and the deduction of this endpoint are commented out
ApiCreateInvoke(r) ==
    /\ Len(mockups) < MaxMockups
    /\ \E u \in Users : Invoke(r, "api_create", u, 0, 0, "api_create:create")

ApiCreateCreate(r) ==
    /\ req[r].pc = "api_create:create"
    /\ mockups' = Append(mockups, NewMockup(req[r].user, NullId, NULL, NULL))
    /\ req' = [req EXCEPT ![r] = IdleReq]
    /\ resp' = [resp EXCEPT ![r].result = "ok", ![r].mid = Len(mockups) + 1]
    /\ UNCHANGED <<credits, aiCalls>>
    /\ Frame

(* --------------------- API: POST /mockups/upload ----------------------- *)
\* every failure, NotFound included, is re-raised as FileUploadError
UploadInvoke(r, type) ==
    \E u \in Users, m \in 1..MaxMockups :
        Invoke(r, "upload", u, m, 0, IF type = "products" THEN "upload_product:find"
                                                         ELSE "upload_logo:find")

UploadFind(r) ==
    /\ req[r].pc \in {"upload_product:find", "upload_logo:find"}
    /\ LET m == req[r].mid IN
       IF m \notin MockupIds \/ mockups[m].user # req[r].user
       THEN Return(r, "FileUploadError")
       ELSE Goto(r, IF req[r].pc = "upload_product:find" THEN "upload_product:update"
                                                         ELSE "upload_logo:update")
    /\ UNCHANGED <<credits, mockups, aiCalls>>
    /\ Frame

UploadUpdate(r) ==
    /\ req[r].pc \in {"upload_product:update", "upload_logo:update"}
    /\ LET m == req[r].mid IN
       IF m \notin MockupIds
       THEN /\ Return(r, "FileUploadError")
            /\ UNCHANGED mockups
       ELSE /\ mockups' = [mockups EXCEPT ![m] =
                             IF req[r].pc = "upload_product:update"
                             THEN [@ EXCEPT !.product_image_url = Url, !.updated_at = now]
                             ELSE [@ EXCEPT !.logo_image_url = Url, !.updated_at = now]]
            /\ Return(r, "ok")
    /\ UNCHANGED <<credits, aiCalls>>
    /\ Frame

(* ----------------- API: POST /mockups/{id}/generate -------------------- *)
GenerateInvoke(r) ==
    \E u \in Users, m \in 1..MaxMockups : Invoke(r, "generate", u, m, 0, "generate:find")

GenerateFind(r) ==
    /\ req[r].pc = "generate:find"
    /\ LET m == req[r].mid IN
       IF m \notin MockupIds \/ mockups[m].user # req[r].user
       THEN /\ Return(r, "NotFound")
            /\ UNCHANGED aiCalls
       ELSE IF ~ImagesReady(mockups[m])
       THEN /\ Return(r, "Validation")
            /\ UNCHANGED aiCalls
       ELSE /\ req' = [req EXCEPT ![r].pc = "generate:generate", ![r].ready = TRUE]
            /\ aiCalls' = aiCalls + 1
            /\ UNCHANGED resp
    /\ UNCHANGED <<credits, mockups>>
    /\ Frame

\* the service returns or raises, then the row is updated; an update of a
\* row deleted meanwhile raises, also inside the except clause
GenerateFinish(r) ==
    /\ req[r].pc = "generate:generate"
    /\ \E outcome \in GenerateOutcomes(req[r].ready) :
         LET m == req[r].mid IN
         IF m \notin MockupIds
         THEN /\ Return(r, "error")
              /\ UNCHANGED mockups
         ELSE IF outcome = "ok"
         THEN /\ mockups' = [mockups EXCEPT ![m] = GenerateCompleted(@)]
              /\ Return(r, "ok")
         ELSE /\ mockups' = [mockups EXCEPT ![m] = GenerateFailed(@)]
              /\ Return(r, "error")
    /\ UNCHANGED <<credits, aiCalls>>
    /\ Frame

(* ---------------- API: POST /mockups/{id}/regenerate ------------------- *)
RegenerateInvoke(r) ==
    \E u \in Users, m \in 1..MaxMockups : Invoke(r, "regenerate", u, m, 0, "regenerate:find")

RegenerateFind(r) ==
    /\ req[r].pc = "regenerate:find"
    /\ LET m == req[r].mid IN
       IF m \notin MockupIds \/ mockups[m].user # req[r].user
       THEN Return(r, "NotFound")
       ELSE Goto(r, "regenerate:credits")
    /\ UNCHANGED <<credits, mockups, aiCalls>>
    /\ Frame

\* find_many(where user_id) without filter on expiry and without order:
\* the first row with amount > used, in whatever order the store returns
RegenerateCandidates(u) ==
    {i \in CreditIds : credits[i].user = u /\ credits[i].amount > credits[i].used}

RegenerateCredits(r) ==
    /\ req[r].pc = "regenerate:credits"
    /\ LET mine == {i \in CreditIds : credits[i].user = req[r].user}
           total_available == SumOver([i \in mine |-> credits[i].amount - credits[i].used], mine)
       IN
       IF total_available < 1
       THEN Return(r, "InsufficientCredits")
       ELSE IF RegenerateCandidates(req[r].user) = {}
       THEN Return(r, "error")
       ELSE \E c \in RegenerateCandidates(req[r].user) :
              /\ req' = [req EXCEPT ![r].pc = "regenerate:debit", ![r].cid = c,
                                    ![r].used = credits[c].used]
              /\ UNCHANGED resp
    /\ UNCHANGED <<credits, mockups, aiCalls>>
    /\ Frame

RegenerateDebit(r) ==
    /\ req[r].pc = "regenerate:debit"
    /\ WriteUsed(r, req[r].cid, DebitValue(req[r].used, credits[req[r].cid].used))
    /\ NoteWrite(r, req[r].cid, "pending", 1)
    /\ req' = [req EXCEPT ![r].pc = "regenerate:reset"]
    /\ UNCHANGED <<mockups, aiCalls>>
    /\ Frame

RegenerateReset(r) ==
    /\ req[r].pc = "regenerate:reset"
    /\ LET m == req[r].mid IN
       IF m \notin MockupIds
       THEN /\ Return(r, "error")
            /\ UNCHANGED <<mockups, aiCalls>>
       ELSE /\ mockups' = [mockups EXCEPT ![m] =
                             [@ EXCEPT !.status = "PENDING", !.result_image_url = NULL,
                                       !.error_message = NULL, !.updated_at = now]]
            /\ req' = [req EXCEPT ![r].pc = "regenerate:generate",
                                  ![r].ready = ImagesReady(mockups[m])]
            /\ aiCalls' = aiCalls + 1
            /\ UNCHANGED resp
    /\ UNCHANGED credits
    /\ Frame

\* a generation failure is recorded on the row and answered with 200
RegenerateFinish(r) ==
    /\ req[r].pc = "regenerate:generate"
    /\ \E outcome \in GenerateOutcomes(req[r].ready) :
         LET m == req[r].mid IN
         IF m \notin MockupIds
         THEN /\ Return(r, "error")
              /\ UNCHANGED mockups
         ELSE IF outcome = "ok"
         THEN /\ mockups' = [mockups EXCEPT ![m] =
                               [@ EXCEPT !.status = "COMPLETED", !.result_image_url = Url,
                                         !.updated_at = now]]
              /\ Return(r, "ok")
         ELSE /\ mockups' = [mockups EXCEPT ![m] =
                               [@ EXCEPT !.status = "FAILED", !.error_message = "error",
                                         !.updated_at = now]]
              /\ Return(r, "ok")
    /\ UNCHANGED <<credits, aiCalls>>
    /\ Frame

(* -------------------- API: DELETE /mockups/{id} ------------------------ *)
DeleteInvoke(r) ==
    \E u \in Users, m \in 1..MaxMockups : Invoke(r, "delete", u, m, 0, "delete:find")

DeleteFind(r) ==
    /\ req[r].pc = "delete:find"
    /\ LET m == req[r].mid IN
       IF m \notin MockupIds \/ mockups[m].user # req[r].user
       THEN Return(r, "NotFound")
       ELSE Goto(r, "delete:delete")
    /\ UNCHANGED <<credits, mockups, aiCalls>>
    /\ Frame

DeleteDelete(r) ==
    /\ req[r].pc = "delete:delete"
    /\ LET m == req[r].mid IN
       IF m \notin MockupIds
       THEN /\ Return(r, "error")
            /\ UNCHANGED mockups
       ELSE /\ mockups' = [mockups EXCEPT ![m].present = FALSE]
            /\ Return(r, "ok")
    /\ UNCHANGED <<credits, aiCalls>>
    /\ Frame

(* ------------------- worker: generate_mockup_task ---------------------- *)
TaskInvoke(r) ==
    \E m \in 1..MaxMockups : Invoke(r, "generate_mockup_task", 0, m, 0, "task:find")

TaskFind(r) ==
    /\ req[r].pc = "task:find"
    /\ LET m == req[r].mid IN
       IF m \notin MockupIds
       THEN Return(r, "None")
       ELSE /\ req' = [req EXCEPT ![r].pc = "task:processing",
                                  ![r].cid = mockups[m].credit_id,
                                  ![r].ready = ImagesReady(mockups[m])]
            /\ UNCHANGED resp
    /\ UNCHANGED <<credits, mockups, aiCalls>>
    /\ Frame

TaskProcessing(r) ==
    /\ req[r].pc = "task:processing"
    /\ LET m == req[r].mid IN
       IF m \notin MockupIds
       THEN /\ Return(r, "error")
            /\ UNCHANGED <<mockups, aiCalls>>
       ELSE /\ mockups' = [mockups EXCEPT ![m] =
                             [@ EXCEPT !.status = "PROCESSING", !.updated_at = now]]
            /\ Goto(r, "task:generate")
            /\ aiCalls' = aiCalls + 1
    /\ UNCHANGED credits
    /\ Frame

TaskFinish(r) ==
    /\ req[r].pc = "task:generate"
    /\ \E outcome \in GenerateOutcomes(req[r].ready) :
         LET m == req[r].mid IN
         IF m \notin MockupIds
         THEN /\ Return(r, "error")
              /\ UNCHANGED mockups
         ELSE IF outcome = "ok"
         THEN /\ mockups' = [mockups EXCEPT ![m] =
                               [@ EXCEPT !.status = "COMPLETED", !.result_image_url = Url,
                                         !.error_message = NULL, !.updated_at = now]]
              /\ Return(r, "ok")
         ELSE /\ mockups' = [mockups EXCEPT ![m] =
                               [@ EXCEPT !.status = "FAILED", !.error_message = "error",
                                         !.updated_at = now]]
              /\ IF req[r].cid # NullId
                 THEN Goto(r, "task:credit")
                 ELSE Return(r, "error")
    /\ UNCHANGED <<credits, aiCalls>>
    /\ Frame

TaskCredit(r) ==
    /\ req[r].pc = "task:credit"
    /\ IF req[r].cid \in CreditIds /\ RefundAllowed(credits[req[r].cid])
       THEN /\ req' = [req EXCEPT ![r].pc = "task:refund",
                                  ![r].used = credits[req[r].cid].used]
            /\ UNCHANGED resp
       ELSE Return(r, "error")
    /\ UNCHANGED <<credits, mockups, aiCalls>>
    /\ Frame

TaskRefund(r) ==
    /\ req[r].pc = "task:refund"
    /\ WriteUsed(r, req[r].cid, RefundValue(req[r].used, credits[req[r].cid].used))
    /\ NoteWrite(r, req[r].cid, "error", -1)
    /\ req' = [req EXCEPT ![r] = IdleReq]
    /\ UNCHANGED <<mockups, aiCalls>>
    /\ Frame

\* the worker's hard time limit ends a task in the middle of the generation
TaskKilled(r) ==
    /\ req[r].pc = "task:generate"
    /\ Return(r, "killed")
    /\ UNCHANGED <<credits, mockups, aiCalls>>
    /\ Frame

(* -------------------------------- clock -------------------------------- *)
Tick ==
    /\ ticks < MaxTicks
    /\ ticks' = ticks + 1
    /\ now' = now + TickStep
    /\ UNCHANGED <<opsLeft, credits, mockups, req, resp, aiCalls, billvars, authvars, ratevars, catalogvars, svcvars, histvars>>

(* ------------------------------- initial ------------------------------- *)
\* ledgers of user 1: empty, one grant (partly used when it has more than
\* one unit), or two unused grants inserted in the reverse of expiry order
InitCreditRows ==
    {[user |-> 1, amount |-> a, used |-> a - 1, expires_at |-> e, created_at |-> 0] :
        a \in 1..MaxAmount, e \in {NoExpiry, TickStep}}

InitCredits ==
    {<<>>} \cup {<<c>> : c \in InitCreditRows}
           \cup {<<[user |-> 1, amount |-> 1, used |-> 0, expires_at |-> 2 * TickStep,
                     created_at |-> 0],
                   [user |-> 1, amount |-> 1, used |-> 0, expires_at |-> TickStep,
                     created_at |-> 0]>>}

\* mockup tables: empty, or one mockup of user 1 as the API or the domain
\* layer leaves it (bound to credit 1 only when created by the domain layer)
InitMockupRows(k) ==
    {[NewMockup(1, NullId, NULL, NULL) EXCEPT !.updated_at = 0],
     [NewMockup(1, NullId, Url, NULL) EXCEPT !.updated_at = 0],
     [NewMockup(1, k, Url, Url) EXCEPT !.updated_at = 0],
     [NewMockup(1, k, Url, Url) EXCEPT !.updated_at = 0, !.status = "PROCESSING"],
     [NewMockup(1, k, Url, Url) EXCEPT !.updated_at = 0, !.status = "COMPLETED",
                                       !.result_image_url = Url],
     [NewMockup(1, k, Url, Url) EXCEPT !.updated_at = 0, !.status = "FAILED",
                                       !.error_message = "error"]}

InitMockups(cs) ==
    {<<>>} \cup {<<m>> : m \in InitMockupRows(IF cs = <<>> THEN NullId ELSE 1)}

Init ==
    /\ now = 0
    /\ ticks = 0
    /\ opsLeft = MaxOps
    /\ credits \in InitCredits
    /\ mockups \in InitMockups(credits)
    /\ req = [r \in Reqs |-> IdleReq]
    /\ resp = [r \in Reqs |-> NoResp]
    /\ aiCalls = 0
    /\ role = [u \in Users |-> "REGISTERED"]
    /\ payments = <<>>
    /\ intents = <<>>
    /\ subs = <<>>
    /\ NoAuthTraffic

CreditStep(r) ==
    \/ UseCreditInvoke(r)
    \/ UseCreditFind(r)
    \/ UseCreditUpdate(r)
    \/ RefundCreditInvoke(r)
    \/ RefundCreditFind(r)
    \/ RefundCreditUpdate(r)
    \/ ExpireInvoke(r)
    \/ ExpireFind(r)
    \/ ExpireUpdate(r)
    \/ CreateMockupInvoke(r)
    \/ CreateMockupCredit(r)
    \/ CreateMockupCreate(r)
    \/ CreateMockupDebit(r)
    \/ RetryInvoke(r)
    \/ RetryFind(r)
    \/ RetryCredit(r)
    \/ RetryDebit(r)
    \/ RetryUpdate(r)
    \/ RefundMockupInvoke(r)
    \/ RefundMockupFind(r)
    \/ RefundMockupCredit(r)
    \/ RefundMockupUpdate(r)
    \/ RegenerateInvoke(r)
    \/ RegenerateFind(r)
    \/ RegenerateCredits(r)
    \/ RegenerateDebit(r)
    \/ RegenerateReset(r)
    \/ RegenerateFinish(r)

ApiStep(r) ==
    \/ ApiCreateInvoke(r)
    \/ ApiCreateCreate(r)
    \/ UploadInvoke(r, "products")
    \/ UploadInvoke(r, "logos")
    \/ UploadFind(r)
    \/ UploadUpdate(r)
    \/ GenerateInvoke(r)
    \/ GenerateFind(r)
    \/ GenerateFinish(r)
    \/ DeleteInvoke(r)
    \/ DeleteFind(r)
    \/ DeleteDelete(r)
    \/ TaskInvoke(r)
    \/ TaskFind(r)
    \/ TaskProcessing(r)
    \/ TaskFinish(r)
    \/ TaskCredit(r)
    \/ TaskRefund(r)
    \/ TaskKilled(r)
    \/ SweepInvoke(r)
    \/ SweepFind(r)
    \/ SweepFail(r)
    \/ HealthCheckTask(r)

\* concurrent requests on the credit ledger
Next ==
    \/ \E r \in Reqs : CreditStep(r)
    \/ Tick

Spec == Init /\ [][Next]_vars

\* one request at a time, over the whole mockup API
NextSeq ==
    \/ CreditStep(1)
    \/ ApiStep(1)
    \/ Tick

SpecSeq == Init /\ [][NextSeq]_vars

(* ============================== billing ================================ *)
\* settings.CREDIT_PRICES (packages) and settings.SUBSCRIPTION_PLANS
Packages == {10, 20, 50, 100}
Plans == {"BASIC", "PRO", "PREMIUM"}
credits_per_month(plan) ==
    CASE plan = "BASIC" -> 10
      [] plan = "PRO" -> 30
      [] plan = "PREMIUM" -> 100

\* a handler of the billing API runs as one step; its answer is kept in slot 1
Reply(op, u, result) ==
    /\ opsLeft > 0
    /\ opsLeft' = opsLeft - 1
    /\ resp' = [resp EXCEPT ![1] = [NoResp EXCEPT !.op = op, !.user = u, !.result = result]]
    /\ UNCHANGED <<now, ticks, mockups, req, aiCalls, ratevars, catalogvars, svcvars, histvars>>

\* an answer of a handler that leaves the user table and the tokens alone
Answer(op, u, result) ==
    /\ Reply(op, u, result)
    /\ UNCHANGED authvars

\* the grant of a paid purchase: expires one year after the webhook
PurchaseGrant_month(u, n) ==
    [user |-> u, amount |-> n, used |-> 0,
     expires_at |-> now + Days(SUBSCRIPTION_PERIOD_DAYS), created_at |-> now]
PurchaseGrant(u, n) ==
    [user |-> u, amount |-> n, used |-> 0,
     expires_at |-> now + Days(CREDIT_EXPIRY_DAYS), created_at |-> now]

\* POST /credits/purchase
PurchaseCredits(u, n) ==
    /\ Len(payments) < MaxPayments
    /\ IF n \notin Packages
       THEN /\ Answer("purchase_credits", u, "Validation")
            /\ UNCHANGED <<credits, billvars>>
       ELSE \/ /\ Answer("purchase_credits", u, "PaymentError")
               /\ UNCHANGED <<credits, billvars>>
            \/ LET idempotency_key == <<u, n, now * 60 + clock>>
               IN  IF \E i \in DOMAIN intents : intents[i].idempotency_key = idempotency_key
                   THEN \* the gateway answers with the intent it already has, and
                        \* the insert of a second Payment row for it is refused
                        /\ Answer("purchase_credits", u, "PaymentError")
                        /\ UNCHANGED <<credits, billvars>>
                   ELSE /\ intents' = Append(intents,
                               [type |-> "credit_purchase", user_id |-> u,
                                credit_amount |-> n, idempotency_key |-> idempotency_key])
                        /\ payments' = Append(payments, [user |-> u, status |-> "PENDING",
                                                         intent |-> Len(intents) + 1])
                        /\ Answer("purchase_credits", u, "ok")
                        /\ UNCHANGED <<credits, role, subs>>

PaymentOfIntent(i) == {p \in DOMAIN payments : payments[p].intent = i}

\* webhook payment_intent.succeeded -> handle_payment_success
HandlePaymentSuccess(i) ==
    /\ Len(credits) < MaxCredits
    /\ IF PaymentOfIntent(i) = {}
       THEN UNCHANGED <<credits, billvars>>
       ELSE LET p == CHOOSE q \in PaymentOfIntent(i) : TRUE
                meta == intents[i]
            IN /\ payments' = [payments EXCEPT ![p].status = "COMPLETED"]
               /\ IF meta.type = "credit_purchase" /\ meta.credit_amount # 0
                  THEN credits' = Append(credits, PurchaseGrant(meta.user_id, meta.credit_amount))
                  ELSE UNCHANGED credits
               /\ UNCHANGED <<role, intents, subs>>
    /\ Answer("payment_intent.succeeded", 0, "success")

\* webhook payment_intent.payment_failed -> handle_payment_failure
HandlePaymentFailure(i) ==
    /\ IF PaymentOfIntent(i) = {}
       THEN UNCHANGED payments
       ELSE LET p == CHOOSE q \in PaymentOfIntent(i) : TRUE
            IN payments' = [payments EXCEPT ![p].status = "FAILED"]
    /\ UNCHANGED <<credits, role, intents, subs>>
    /\ Answer("payment_intent.payment_failed", 0, "success")

ActiveSubs(u) == {k \in DOMAIN subs : subs[k].user = u /\ subs[k].status = "ACTIVE"}
CancelledSubs(u) == {k \in DOMAIN subs : subs[k].user = u /\ subs[k].status = "CANCELLED"}

\* POST /subscriptions; the gateway answers "active" or "incomplete", or fails
CreateSubscription(u, plan, stripe_status) ==
    /\ Len(subs) < MaxSubs
    /\ Len(credits) < MaxCredits
    /\ IF ActiveSubs(u) # {}
       THEN /\ Answer("create_subscription", u, "Validation")
            /\ UNCHANGED <<credits, billvars>>
       ELSE \/ /\ Answer("create_subscription", u, "PaymentError")
               /\ UNCHANGED <<credits, billvars>>
            \/ LET status == IF stripe_status = "active" THEN "ACTIVE" ELSE "INACTIVE"
                   period_end == now + Days(SUBSCRIPTION_PERIOD_DAYS)
               IN /\ subs' = Append(subs, [user |-> u, plan |-> plan, status |-> status,
                                           period_end |-> period_end, created_at |-> now])
                  /\ IF status = "ACTIVE"
                     THEN /\ credits' = Append(credits,
                                [user |-> u, amount |-> credits_per_month(plan), used |-> 0,
                                 expires_at |-> period_end, created_at |-> now])
                          /\ role' = [role EXCEPT ![u] = "SUBSCRIBED"]
                     ELSE UNCHANGED <<credits, role>>
                  /\ Answer("create_subscription", u, "ok")
                  /\ UNCHANGED <<payments, intents>>

\* POST /subscriptions/cancel
CancelSubscription(u) ==
    /\ IF ActiveSubs(u) = {}
       THEN /\ Answer("cancel_subscription", u, "NotFound")
            /\ UNCHANGED billvars
       ELSE \/ /\ Answer("cancel_subscription", u, "PaymentError")
               /\ UNCHANGED billvars
            \/ \E k \in ActiveSubs(u) :
                 /\ subs' = [subs EXCEPT ![k].status = "CANCELLED"]
                 /\ role' = [role EXCEPT ![u] = "REGISTERED"]
                 /\ Answer("cancel_subscription", u, "ok")
                 /\ UNCHANGED <<payments, intents>>
    /\ UNCHANGED credits

\* reactivation is allowed while the stored period has not ended
WithinPeriod_always(sub) == TRUE
WithinPeriod(sub) == ~(now > sub.period_end)

\* POST /subscriptions/reactivate
ReactivateSubscription(u) ==
    /\ IF CancelledSubs(u) = {}
       THEN /\ Answer("reactivate_subscription", u, "NotFound")
            /\ UNCHANGED billvars
       ELSE \E k \in CancelledSubs(u) :
              IF ~WithinPeriod(subs[k])
              THEN /\ Answer("reactivate_subscription", u, "Validation")
                   /\ UNCHANGED billvars
              ELSE \/ /\ Answer("reactivate_subscription", u, "PaymentError")
                      /\ UNCHANGED billvars
                   \/ /\ subs' = [subs EXCEPT ![k].status = "ACTIVE"]
                      /\ role' = [role EXCEPT ![u] = "SUBSCRIBED"]
                      /\ Answer("reactivate_subscription", u, "ok")
                      /\ UNCHANGED <<payments, intents>>
    /\ UNCHANGED credits

\* webhook invoice.payment_succeeded -> handle_subscription_payment_success
HandleSubscriptionPaymentSuccess(k) ==
    /\ Len(credits) < MaxCredits
    /\ IF k \notin DOMAIN subs
       THEN UNCHANGED <<credits, billvars>>
       ELSE LET u == subs[k].user
                existing_credits == {c \in CreditIds : /\ credits[c].user = u
                                                       /\ credits[c].created_at >= subs[k].created_at}
            IN /\ subs' = [subs EXCEPT ![k].status = "ACTIVE"]
               /\ role' = [role EXCEPT ![u] = "SUBSCRIBED"]
               /\ IF existing_credits = {}
                  THEN credits' = Append(credits,
                          [user |-> u, amount |-> credits_per_month(subs[k].plan), used |-> 0,
                           expires_at |-> now + Days(SUBSCRIPTION_PERIOD_DAYS),
                           created_at |-> now])
                  ELSE UNCHANGED credits
               /\ UNCHANGED <<payments, intents>>
    /\ Answer("invoice.payment_succeeded", 0, "success")

\* webhook customer.subscription.deleted -> handle_subscription_cancelled
HandleSubscriptionCancelled(k) ==
    /\ IF k \notin DOMAIN subs
       THEN UNCHANGED subs
       ELSE subs' = [subs EXCEPT ![k].status = "CANCELLED"]
    /\ UNCHANGED <<credits, role, payments, intents>>
    /\ Answer("customer.subscription.deleted", 0, "success")

\* a billing period goes by
TickPeriod ==
    /\ ticks < MaxTicks
    /\ ticks' = ticks + 1
    /\ now' = now + Days(SUBSCRIPTION_PERIOD_DAYS) + TickStep
    /\ UNCHANGED <<opsLeft, credits, mockups, req, resp, aiCalls, billvars, authvars, ratevars, catalogvars, svcvars, histvars>>

\* the grant made at registration: FREE_CREDITS_ON_SIGNUP units that never expire
SignupGrant(u) ==
    [user |-> u, amount |-> FREE_CREDITS_ON_SIGNUP, used |-> 0,
     expires_at |-> NoExpiry, created_at |-> 0]

InitBilling ==
    /\ now = 0
    /\ ticks = 0
    /\ opsLeft = MaxBillingOps
    /\ credits \in {<<>>, <<SignupGrant(1)>>}
    /\ mockups = <<>>
    /\ req = [r \in Reqs |-> IdleReq]
    /\ resp = [r \in Reqs |-> NoResp]
    /\ aiCalls = 0
    /\ role \in [Users -> {"REGISTERED", "ADMIN"}]
    /\ payments = <<>>
    /\ intents = <<>>
    /\ subs = <<>>
    /\ NoAuthTraffic

NextBilling ==
    \/ \E u \in Users, n \in Packages \cup {7} : PurchaseCredits(u, n)
    \/ \E i \in 1..MaxPayments : HandlePaymentSuccess(i)
    \/ \E i \in 1..MaxPayments : HandlePaymentFailure(i)
    \/ \E u \in Users, plan \in Plans, st \in {"active", "incomplete"} :
          CreateSubscription(u, plan, st)
    \/ \E u \in Users : CancelSubscription(u)
    \/ \E u \in Users : ReactivateSubscription(u)
    \/ \E k \in 1..MaxSubs : HandleSubscriptionPaymentSuccess(k)
    \/ \E k \in 1..MaxSubs : HandleSubscriptionCancelled(k)
    \/ TickPeriod

SpecBilling == InitBilling /\ [][NextBilling]_vars

(* ======================= properties of the claims ====================== *)
ConsumeOps == {"use_credit", "create_mockup", "retry_failed_mockup", "regenerate"}
RefundOps == {"refund_credit", "refund_mockup", "reset_stuck_mockups", "generate_mockup_task"}
SelectPcs == {"use_credit:find", "create_mockup:credit", "retry:credit", "regenerate:credits"}
DebitPcs == {"use_credit:update", "create_mockup:debit", "retry:debit", "regenerate:debit"}
GenerationPcs == {"generate:generate", "regenerate:generate"}

\* available in the sense of the data model: unused units, expiry absent or in the future
Available(u) ==
    {i \in CreditIds : /\ credits[i].user = u
                       /\ credits[i].used < credits[i].amount
                       /\ (credits[i].expires_at = NoExpiry \/ credits[i].expires_at > now)}

EarliestAvailable(u) ==
    {i \in Available(u) :
        \A j \in Available(u) : ExpiryLE(credits[i].expires_at, credits[j].expires_at)}

Finishes(r) == req[r].pc # "idle" /\ req'[r].pc = "idle"

\* C1: every credit grant keeps 0 <= used <= amount in every reachable state,
\* whatever the interleaving of consume, refund and expire operations.
Thm_C1 ==
    \A i \in CreditIds : 0 <= credits[i].used /\ credits[i].used <= credits[i].amount

\* a consume or refund has written back a value computed from a stale read
Wit_C1 ==
    \E r \in Reqs : /\ resp[r].stale
                    /\ resp[r].op \in ConsumeOps \cup RefundOps
                    /\ req[r].pc = "idle"

\* C2: every consuming operation increments `used` by one on the caller's
\* available credit with the earliest expiry and leaves every other credit unchanged.
Cex_C2 ==
    [][\A r \in Reqs :
         /\ (req[r].pc \in SelectPcs /\ req'[r].pc \in DebitPcs)
               => req'[r].cid \in EarliestAvailable(req[r].user)
         /\ (req[r].pc \in DebitPcs /\ req'[r].pc # req[r].pc)
               => credits' = [credits EXCEPT ![req[r].cid].used = @ + 1]]_vars

\* C3: every generation attempt started through the generate or regenerate
\* endpoint consumes exactly one credit unit of the caller when it starts, and
\* a caller without available credit cannot start a generation.
Cex_C3 ==
    [][\A r \in Reqs :
         /\ (req[r].pc \notin GenerationPcs /\ req'[r].pc \in GenerationPcs)
               => resp'[r].spent = 1
         /\ (/\ req[r].pc \in {"generate:find", "regenerate:credits"}
             /\ req'[r].pc # req[r].pc
             /\ Available(req[r].user) = {})
               => req'[r].pc = "idle"]_vars

\* C4: create_mockup, retry_failed_mockup and regenerate fail with
\* InsufficientCredits exactly when the caller has no credit with used < amount
\* whose expiry is absent or in the future, and then change no row.
Cex_C4 ==
    [][\A r \in Reqs :
         (req[r].pc \in {"create_mockup:credit", "retry:credit", "regenerate:credits"}
            /\ req'[r].pc # req[r].pc)
         => /\ (resp'[r].result = "InsufficientCredits") <=> (Available(req[r].user) = {})
            /\ (resp'[r].result = "InsufficientCredits")
                  => (credits' = credits /\ mockups' = mockups)]_vars

\* C5: a consuming request writes the value it read plus one whatever the
\* stored value has become, so that two interleaved requests of one user can
\* both succeed while `used` grows by one only.
Thm_C5 ==
    [][\A r \in Reqs :
         (req[r].pc \in DebitPcs /\ req'[r].pc # req[r].pc)
         => credits'[req[r].cid].used = req[r].used + 1]_vars

\* two requests were the only operations, both consumed from the same credit
\* after reading the same value, and `used` is that value plus one
Wit_C5 ==
    \E r1 \in Reqs, r2 \in Reqs :
        /\ r1 # r2
        /\ opsLeft = MaxOps - 2
        /\ req[r1].pc = "idle" /\ req[r2].pc = "idle"
        /\ resp[r1].op \in ConsumeOps /\ resp[r2].op \in ConsumeOps
        /\ resp[r1].result \in {"ok", "True"} /\ resp[r2].result \in {"ok", "True"}
        /\ resp[r1].user = resp[r2].user
        /\ resp[r1].spent = 1 /\ resp[r2].spent = 1
        /\ resp[r1].cid = resp[r2].cid
        /\ resp[r1].read = resp[r2].read
        /\ credits[resp[r1].cid].used = resp[r1].read + 1

\* C7: generate on an owned mockup with both images ends with the mockup
\* COMPLETED carrying a result URL or FAILED carrying an error message.
Thm_C7 ==
    [][\A r \in Reqs :
         (req[r].pc = "generate:generate" /\ Finishes(r))
         => LET m == mockups'[req[r].mid] IN
            /\ m.present
            /\ \/ m.status = "COMPLETED" /\ m.result_image_url # NULL
               \/ m.status = "FAILED" /\ m.error_message # NULL]_vars

\* generate has returned its result on a mockup that is now COMPLETED
Wit_C7 ==
    \E r \in Reqs : /\ resp[r].op = "generate"
                    /\ resp[r].result = "ok"
                    /\ resp[r].mid \in MockupIds
                    /\ mockups[resp[r].mid].status = "COMPLETED"
                    /\ mockups[resp[r].mid].result_image_url # NULL

\* C8: generate on an owned mockup lacking its product or its logo image is
\* rejected with Validation, does not call the generation service and leaves
\* the mockup unchanged.
Thm_C8 ==
    [][\A r \in Reqs :
         (/\ req[r].pc = "generate:find"
          /\ req'[r].pc # req[r].pc
          /\ req[r].mid \in MockupIds
          /\ mockups[req[r].mid].user = req[r].user
          /\ \/ mockups[req[r].mid].product_image_url = NULL
             \/ mockups[req[r].mid].logo_image_url = NULL)
         => /\ resp'[r].result = "Validation"
            /\ req'[r].pc = "idle"
            /\ aiCalls' = aiCalls
            /\ mockups' = mockups
            /\ credits' = credits]_vars

\* generate was rejected on a mockup that has its product image but no logo
Wit_C8 ==
    \E r \in Reqs : /\ resp[r].op = "generate"
                    /\ resp[r].result = "Validation"
                    /\ mockups[resp[r].mid].product_image_url # NULL
                    /\ mockups[resp[r].mid].logo_image_url = NULL

\* C9: when a mockup for which a credit unit was consumed ends FAILED or is
\* deleted, that credit's `used` is decremented by one: on regenerate, on
\* delete, in the generation task and in the stuck-mockup sweep.
Cex_C9 ==
    [][\A r \in Reqs :
         /\ (/\ req[r].pc = "regenerate:generate" /\ Finishes(r)
             /\ mockups'[req[r].mid].status = "FAILED")
               => resp'[r].spent = 0
         /\ (/\ req[r].pc = "delete:delete" /\ Finishes(r)
             /\ req[r].mid \in MockupIds
             /\ mockups[req[r].mid].credit_id \in CreditIds
             /\ credits[mockups[req[r].mid].credit_id].used > 0)
               => credits'[mockups[req[r].mid].credit_id].used
                     = credits[mockups[req[r].mid].credit_id].used - 1
         /\ (/\ req[r].pc \in {"task:credit", "refund_mockup:credit"}
             /\ req'[r].pc # req[r].pc
             /\ resp[r].op \in {"generate_mockup_task", "reset_stuck_mockups"}
             /\ req[r].cid \in CreditIds
             /\ credits[req[r].cid].used > 0)
               => req'[r].pc \in {"task:refund", "refund_mockup:update"}
         /\ (/\ req[r].pc \in {"task:refund", "refund_mockup:update"}
             /\ req'[r].pc # req[r].pc
             /\ resp[r].op \in {"generate_mockup_task", "reset_stuck_mockups"})
               => credits'[req[r].cid].used = credits[req[r].cid].used - 1]_vars

\* units a user can spend: unused units of the credits that are available
AvailableUnits(cs, u, t) ==
    LET avail == {i \in DOMAIN cs : /\ cs[i].user = u
                                    /\ cs[i].used < cs[i].amount
                                    /\ (cs[i].expires_at = NoExpiry \/ cs[i].expires_at > t)}
    IN SumOver([i \in avail |-> cs[i].amount - cs[i].used], avail)

Cex_C10 ==
    \A u \in Users : Cardinality({k \in DOMAIN subs : subs[k].user = u /\ subs[k].status = "ACTIVE"}) <= 1

(* ===================== subscriptions and the role ====================== *)
\* SubscriptionModel.cancel_subscription
ModelCancelSubscription(u, immediate) ==
    /\ IF ActiveSubs(u) = {}
       THEN /\ Answer("SubscriptionModel.cancel_subscription", u, "False")
            /\ UNCHANGED billvars
       ELSE \E k \in ActiveSubs(u) :
              LET other_active == ActiveSubs(u) \ {k}
              IN /\ subs' = [subs EXCEPT ![k] =
                               [@ EXCEPT !.status = "CANCELLED",
                                         !.period_end = IF immediate THEN now ELSE @]]
                 /\ IF other_active = {}
                    THEN role' = [role EXCEPT ![u] = "REGISTERED"]
                    ELSE UNCHANGED role
                 /\ Answer("SubscriptionModel.cancel_subscription", u, "True")
                 /\ UNCHANGED <<payments, intents>>
    /\ UNCHANGED credits

InitSubs ==
    /\ now = 0
    /\ ticks = 0
    /\ opsLeft = MaxSubOps
    /\ credits = <<>>
    /\ mockups = <<>>
    /\ req = [r \in Reqs |-> IdleReq]
    /\ resp = [r \in Reqs |-> NoResp]
    /\ aiCalls = 0
    /\ role \in [Users -> {"REGISTERED", "ADMIN"}]
    /\ payments = <<>>
    /\ intents = <<>>
    /\ subs = <<>>
    /\ NoAuthTraffic

NextSubs ==
    \/ \E u \in Users, plan \in Plans, st \in {"active", "incomplete"} :
          CreateSubscription(u, plan, st)
    \/ \E u \in Users : CancelSubscription(u)
    \/ \E u \in Users, immediate \in BOOLEAN : ModelCancelSubscription(u, immediate)
    \/ \E u \in Users : ReactivateSubscription(u)
    \/ \E k \in 1..MaxSubs : HandleSubscriptionPaymentSuccess(k)
    \/ \E k \in 1..MaxSubs : HandleSubscriptionCancelled(k)
    \/ TickPeriod

SpecSubs == InitSubs /\ [][NextSubs]_vars

\* C11: with non-overlapping create, cancel, reactivate and the invoice-paid
\* and subscription-deleted webhooks, a user who is not ADMIN has role
\* SUBSCRIBED exactly when the user has an ACTIVE subscription.
Cex_C11 ==
    \A u \in Users :
        role[u] # "ADMIN" => (role[u] = "SUBSCRIBED" <=> ActiveSubs(u) # {})

CancelOps == {"cancel_subscription", "SubscriptionModel.cancel_subscription"}

\* C12: a successful cancel (domain method or endpoint) sets the subscription
\* CANCELLED and sets the role REGISTERED exactly when no other ACTIVE
\* subscription of the user remains; otherwise the role is left as it was.
Cex_C12 ==
    [][(/\ opsLeft' # opsLeft
        /\ resp'[1].op \in CancelOps
        /\ resp'[1].result \in {"ok", "True"})
       => LET u == resp'[1].user
              remaining == {k \in DOMAIN subs' : subs'[k].user = u /\ subs'[k].status = "ACTIVE"}
          IN /\ \E k \in ActiveSubs(u) : subs'[k].status = "CANCELLED"
             /\ remaining = {} => role'[u] = "REGISTERED"
             /\ remaining # {} => role'[u] = role[u]]_vars

(* ====================== POST /payments/webhook ========================= *)
\* the signature header of a request: absent, made for another body or with
\* another secret, or the signature of this raw body
SignatureHeaders == {"missing", "mismatch", "match"}

\* stripe.Webhook.construct_event succeeds only for the signature of the body
Verified_any(header) == TRUE
Verified(header) == header = "match"

EventTypes ==
    {"payment_intent.succeeded", "payment_intent.payment_failed",
     "invoice.payment_succeeded", "customer.subscription.deleted", "charge.refunded"}

\* the objects an event of a type can carry: intent ids, gateway subscription ids
EventObjects(type) ==
    CASE type \in {"payment_intent.succeeded", "payment_intent.payment_failed"} -> 1..MaxPayments
      [] type \in {"invoice.payment_succeeded", "customer.subscription.deleted"} -> 1..MaxSubs
      [] OTHER -> {0}

\* database operations a handler issues, in order; the fail-th one may raise
DbOps(type) ==
    CASE type = "payment_intent.succeeded" -> 3
      [] type = "payment_intent.payment_failed" -> 2
      [] type = "invoice.payment_succeeded" -> 5
      [] type = "customer.subscription.deleted" -> 1
      [] OTHER -> 0

\* does the handler get as far as its n-th database operation
Reached(type, obj, n) ==
    CASE type = "payment_intent.succeeded" -> n = 1 \/ PaymentOfIntent(obj) # {}
      [] type = "payment_intent.payment_failed" -> n = 1 \/ PaymentOfIntent(obj) # {}
      [] type = "invoice.payment_succeeded" ->
            \/ n = 1
            \/ /\ obj \in DOMAIN subs
               /\ n = 5 => ~\E c \in CreditIds : /\ credits[c].user = subs[obj].user
                                                 /\ credits[c].created_at >= subs[obj].created_at
      [] type = "customer.subscription.deleted" -> n = 1
      [] OTHER -> FALSE

\* every handler body sits in try / except Exception: log
Surfaced_uncaught(raised) == raised
Surfaced(raised) == FALSE

\* a handler whose n-th database operation raises: the writes before it stay
HandlerInterrupted(type, obj, n) ==
    /\ payments' = IF type = "payment_intent.succeeded" /\ n > 2
                   THEN [payments EXCEPT ![CHOOSE q \in PaymentOfIntent(obj) : TRUE].status =
                                             "COMPLETED"]
                   ELSE payments
    /\ subs' = IF type = "invoice.payment_succeeded" /\ n > 2
               THEN [subs EXCEPT ![obj].status = "ACTIVE"]
               ELSE subs
    /\ role' = IF type = "invoice.payment_succeeded" /\ n > 3
               THEN [role EXCEPT ![subs[obj].user] = "SUBSCRIBED"]
               ELSE role
    /\ UNCHANGED <<credits, intents>>
    /\ Answer(type, 0, IF Surfaced(TRUE) THEN "500" ELSE "success")

\* stripe_webhook: verify, dispatch on the event type, acknowledge
StripeWebhook(header, type, obj, fail) ==
    IF ~Verified(header)
    THEN /\ Answer(type, 0, "400")
         /\ UNCHANGED <<credits, billvars>>
    ELSE IF fail # 0 /\ Reached(type, obj, fail)
    THEN HandlerInterrupted(type, obj, fail)
    ELSE CASE type = "payment_intent.succeeded" -> HandlePaymentSuccess(obj)
           [] type = "payment_intent.payment_failed" -> HandlePaymentFailure(obj)
           [] type = "invoice.payment_succeeded" -> HandleSubscriptionPaymentSuccess(obj)
           [] type = "customer.subscription.deleted" -> HandleSubscriptionCancelled(obj)
           [] OTHER -> /\ Answer(type, 0, "success")
                       /\ UNCHANGED <<credits, billvars>>

InitWebhook ==
    /\ now = 0
    /\ ticks = 0
    /\ opsLeft = MaxWebhookOps
    /\ credits = <<>>
    /\ mockups = <<>>
    /\ req = [r \in Reqs |-> IdleReq]
    /\ resp = [r \in Reqs |-> NoResp]
    /\ aiCalls = 0
    /\ role = [u \in Users |-> "REGISTERED"]
    /\ payments = <<>>
    /\ intents = <<>>
    /\ subs = <<>>
    /\ NoAuthTraffic

NextWebhook ==
    \/ \E u \in Users, n \in Packages : PurchaseCredits(u, n)
    \/ \E u \in Users, plan \in Plans, st \in {"active", "incomplete"} :
          CreateSubscription(u, plan, st)
    \/ \E header \in SignatureHeaders, type \in EventTypes :
         \E obj \in EventObjects(type), fail \in 0..DbOps(type) :
            StripeWebhook(header, type, obj, fail)

SpecWebhook == InitWebhook /\ [][NextWebhook]_vars

\* C13: a webhook request whose signature verifies is answered with the
\* success acknowledgement for every event type, handled or not, and whether
\* or not a database operation of the handler fails.
Thm_C13 ==
    [][\A type \in EventTypes :
         \A obj \in EventObjects(type), fail \in 0..DbOps(type) :
            StripeWebhook("match", type, obj, fail) => resp'[1].result = "success"]_vars

\* acknowledged although the grant of a completed purchase failed to be stored
Wit_C13 ==
    /\ resp[1].op = "payment_intent.succeeded"
    /\ resp[1].result = "success"
    /\ credits = <<>>
    /\ \E p \in DOMAIN payments : payments[p].status = "COMPLETED"

\* C14: a webhook request whose signature is missing or does not verify is
\* answered with status 400 and changes no payment, subscription, credit or
\* user row.
Thm_C14 ==
    [][\A header \in {"missing", "mismatch"}, type \in EventTypes :
         \A obj \in EventObjects(type), fail \in 0..DbOps(type) :
            StripeWebhook(header, type, obj, fail)
            => /\ resp'[1].result = "400"
               /\ UNCHANGED <<payments, subs, credits, role>>]_vars

\* rejected while a payment was waiting for exactly this event
Wit_C14 ==
    /\ resp[1].op = "payment_intent.succeeded"
    /\ resp[1].result = "400"
    /\ \E p \in DOMAIN payments : payments[p].status = "PENDING"

(* ============================ authentication =========================== *)
\* a signed token carries its kind, the user id, the e-mail and its expiry
Token(kind, u, email, lifetime) ==
    [kind |-> kind, sub |-> u, email |-> email, exp |-> now + lifetime, sig |-> "valid"]

create_access_token(u, email) == Token("access", u, email, ACCESS_TOKEN_EXPIRE_MINUTES)
create_token_pair(u, email) ==
    {create_access_token(u, email),
     Token("refresh", u, email, Days(REFRESH_TOKEN_EXPIRE_DAYS))}
create_password_reset_token(u, email) == Token("reset", u, email, RESET_TOKEN_EXPIRE_MINUTES)

\* what a client can send: any token ever issued, or one signed with another key
Presentable ==
    tokens \cup {[kind |-> k, sub |-> 1, email |-> 1, exp |-> Days(CREDIT_EXPIRY_DAYS),
                  sig |-> "forged"] : k \in {"access", "refresh", "reset"}}

\* verify_token / verify_password_reset_token: the claims, or nothing when the
\* signature is wrong, the token has expired or it is of another kind
verify_token(token, kind) ==
    token.sig = "valid" /\ token.kind = kind /\ now < token.exp

UserByEmail(email) == {u \in DOMAIN users : users[u].email = email}

\* the account must be active
ActiveRequired_skipped(user) == TRUE
ActiveRequired(user) == user.is_active

\* the e-mail in a reset token must still be the account's
EmailBound_ignored(user, token) == TRUE
EmailBound(user, token) == user.email = token.email

\* deps.get_current_user: the user of a bearer token, 0 when it is refused
get_current_user(token) ==
    IF /\ verify_token(token, "access")
       /\ token.sub \in DOMAIN users
       /\ ActiveRequired(users[token.sub])
    THEN token.sub
    ELSE 0

\* the lookup that precedes the insert of a new account
EmailTaken_never(email) == FALSE
EmailTaken(email) == UserByEmail(email) # {}

\* POST /auth/register; the insert of the starter grant may fail
Register(email, password, grant_stored) ==
    IF EmailTaken(email)
    THEN /\ Reply("register", 0, "Conflict")
         /\ UNCHANGED authvars
         /\ UNCHANGED <<credits, billvars>>
    ELSE /\ Len(users) < NUsers
         /\ Len(credits) < MaxCredits
         /\ LET id == Len(users) + 1
            IN /\ users' = Append(users, UserRow(email, password))
               /\ role' = [role EXCEPT ![id] = "REGISTERED"]
               /\ IF grant_stored
                  THEN /\ credits' = Append(credits, [SignupGrant(id) EXCEPT !.created_at = now])
                       /\ Reply("register", id, "ok")
                  ELSE /\ UNCHANGED credits
                       /\ Reply("register", id, "500")
         /\ UNCHANGED <<tokens, payments, intents, subs>>

\* UserModel.create_user
ModelCreateUser(email, password, r, grant_stored) ==
    IF UserByEmail(email) # {}
    THEN /\ Reply("UserModel.create_user", 0, "raised")
         /\ UNCHANGED authvars
         /\ UNCHANGED <<credits, billvars>>
    ELSE /\ Len(users) < NUsers
         /\ Len(credits) < MaxCredits
         /\ LET id == Len(users) + 1
            IN /\ users' = Append(users, UserRow(email, password))
               /\ role' = [role EXCEPT ![id] = r]
               /\ IF grant_stored
                  THEN /\ credits' = Append(credits, [SignupGrant(id) EXCEPT !.created_at = now])
                       /\ Reply("UserModel.create_user", id, "ok")
                  ELSE /\ UNCHANGED credits
                       /\ Reply("UserModel.create_user", id, "raised")
         /\ UNCHANGED <<tokens, payments, intents, subs>>

\* POST /auth/login
Login(email, password) ==
    /\ UNCHANGED <<credits, billvars>>
    /\ IF UserByEmail(email) = {}
       THEN /\ Reply("login", 0, "Authentication")
            /\ UNCHANGED authvars
       ELSE LET u == CHOOSE v \in UserByEmail(email) : TRUE
            IN IF ~verify_password(password, users[u].password_hash)
               THEN /\ Reply("login", 0, "Authentication")
                    /\ UNCHANGED authvars
               ELSE IF ~ActiveRequired(users[u])
               THEN /\ Reply("login", u, "Authentication")
                    /\ UNCHANGED authvars
               ELSE /\ users' = [users EXCEPT ![u].last_login = now]
                    /\ tokens' = tokens \cup create_token_pair(u, users[u].email)
                    /\ Reply("login", u, "ok")

\* POST /auth/refresh
Refresh(token) ==
    /\ UNCHANGED <<credits, billvars>>
    /\ UNCHANGED users
    /\ IF ~verify_token(token, "refresh")
       THEN /\ Reply("refresh", 0, "Authentication")
            /\ UNCHANGED tokens
       ELSE IF token.sub \notin DOMAIN users \/ ~ActiveRequired(users[token.sub])
       THEN /\ Reply("refresh", token.sub, "Authentication")
            /\ UNCHANGED tokens
       ELSE /\ tokens' = tokens \cup {create_access_token(token.sub, users[token.sub].email)}
            /\ Reply("refresh", token.sub, "ok")

\* GET /auth/me
GetMe(token) ==
    /\ UNCHANGED <<credits, billvars>>
    /\ UNCHANGED authvars
    /\ IF get_current_user(token) = 0
       THEN Reply("me", IF token.sig = "valid" THEN token.sub ELSE 0, "Authentication")
       ELSE Reply("me", get_current_user(token), "ok")

\* PUT /users/me with a new e-mail address
UpdateUserProfile(token, email) ==
    /\ UNCHANGED <<credits, billvars>>
    /\ UNCHANGED tokens
    /\ LET u == get_current_user(token)
       IN IF u = 0
          THEN /\ Reply("update_user_profile", 0, "Authentication")
               /\ UNCHANGED users
          ELSE IF \E v \in UserByEmail(email) : v # u
          THEN /\ Reply("update_user_profile", u, "Validation")
               /\ UNCHANGED users
          ELSE /\ users' = [users EXCEPT ![u].email = email]
               /\ Reply("update_user_profile", u, "ok")

\* DELETE /users/me
DeleteUserAccount(token) ==
    /\ UNCHANGED <<credits, billvars>>
    /\ UNCHANGED tokens
    /\ LET u == get_current_user(token)
       IN IF u = 0
          THEN /\ Reply("delete_user_account", 0, "Authentication")
               /\ UNCHANGED users
          ELSE /\ users' = [users EXCEPT ![u].is_active = FALSE]
               /\ Reply("delete_user_account", u, "ok")

\* PUT /users/{user_id}/deactivate and /activate (administrators)
SetUserActive(token, target, active) ==
    /\ UNCHANGED <<credits, billvars>>
    /\ UNCHANGED tokens
    /\ LET admin == get_current_user(token)
           op == IF active THEN "activate_user" ELSE "deactivate_user"
       IN IF admin = 0
          THEN /\ Reply(op, 0, "Authentication")
               /\ UNCHANGED users
          ELSE IF role[admin] # "ADMIN"
          THEN /\ Reply(op, admin, "Authorization")
               /\ UNCHANGED users
          ELSE IF target \notin DOMAIN users
          THEN /\ Reply(op, admin, "NotFound")
               /\ UNCHANGED users
          ELSE /\ users' = [users EXCEPT ![target].is_active = active]
               /\ Reply(op, admin, "ok")

\* POST /auth/forgot-password: the reset token goes out by mail
ForgotPassword(email) ==
    /\ UNCHANGED <<credits, billvars>>
    /\ UNCHANGED users
    /\ IF UserByEmail(email) = {}
       THEN UNCHANGED tokens
       ELSE LET u == CHOOSE v \in UserByEmail(email) : TRUE
            IN tokens' = tokens \cup {create_password_reset_token(u, users[u].email)}
    /\ Reply("forgot_password", 0, "ok")

\* POST /auth/reset-password
ResetPassword(token, new_password) ==
    /\ UNCHANGED <<credits, billvars>>
    /\ UNCHANGED tokens
    /\ IF ~verify_token(token, "reset")
       THEN /\ Reply("reset_password", 0, "Authentication")
            /\ UNCHANGED users
       ELSE IF token.sub \notin DOMAIN users \/ ~EmailBound(users[token.sub], token)
       THEN /\ Reply("reset_password", token.sub, "Authentication")
            /\ UNCHANGED users
       ELSE /\ users' = [users EXCEPT ![token.sub].password_hash =
                                         get_password_hash(new_password)]
            /\ Reply("reset_password", token.sub, "ok")

\* an administrator (set up outside the API) exists and has just logged in
InitAuth ==
    /\ now = 0
    /\ ticks = 0
    /\ opsLeft = MaxAuthOps
    /\ credits = <<SignupGrant(1)>>
    /\ mockups = <<>>
    /\ req = [r \in Reqs |-> IdleReq]
    /\ resp = [r \in Reqs |-> NoResp]
    /\ aiCalls = 0
    /\ role = [u \in Users |-> IF u = 1 THEN "ADMIN" ELSE "REGISTERED"]
    /\ payments = <<>>
    /\ intents = <<>>
    /\ subs = <<>>
    /\ users = <<[UserRow(1, "pw1") EXCEPT !.last_login = 0]>>
    /\ tokens = create_token_pair(1, 1)
    /\ IdleLimiter
    /\ NoHistory
    /\ EmptyCatalog
    /\ NoCalls

NextAuth ==
    \/ \E e \in Emails, pw \in Passwords, stored \in BOOLEAN : Register(e, pw, stored)
    \/ \E e \in Emails, pw \in Passwords, stored \in BOOLEAN :
          ModelCreateUser(e, pw, "REGISTERED", stored)
    \/ \E e \in Emails, pw \in Passwords : Login(e, pw)
    \/ \E t \in Presentable : Refresh(t)
    \/ \E t \in Presentable : GetMe(t)
    \/ \E t \in Presentable, e \in Emails : UpdateUserProfile(t, e)
    \/ \E t \in Presentable : DeleteUserAccount(t)
    \/ \E t \in Presentable, u \in Users, active \in BOOLEAN : SetUserActive(t, u, active)
    \/ \E e \in Emails : ForgotPassword(e)
    \/ \E t \in Presentable, pw \in Passwords : ResetPassword(t, pw)
    \/ TickPeriod

SpecAuth == InitAuth /\ [][NextAuth]_vars

\* C15: registering with an e-mail address that already belongs to a user
\* returns Conflict and adds neither a user row nor a starter grant; the
\* existing users and credits are unchanged.
Thm_C15 ==
    [][\A e \in Emails, pw \in Passwords, stored \in BOOLEAN :
         (Register(e, pw, stored) /\ UserByEmail(e) # {})
         => /\ resp'[1].result = "Conflict"
            /\ UNCHANGED <<users, credits, role>>]_vars

\* a refused registration next to a user registered through the API
Wit_C15 ==
    /\ resp[1].op = "register"
    /\ resp[1].result = "Conflict"
    /\ Len(users) = 2
    /\ Len(credits) = 2

\* C16: every user row has exactly one starter grant of FREE_CREDITS_ON_SIGNUP
\* units that never expires; no state has a user row without it.
Cex_C16 ==
    \A u \in DOMAIN users :
        Cardinality({c \in DOMAIN credits : /\ credits[c].user = u
                                            /\ credits[c].amount = FREE_CREDITS_ON_SIGNUP
                                            /\ credits[c].expires_at = NoExpiry}) = 1

Thm_C18 ==
    [][\A t \in Presentable, pw \in Passwords :
         (/\ ResetPassword(t, pw)
          /\ t.sig = "valid" /\ t.kind = "reset" /\ now < t.exp
          /\ t.sub \in DOMAIN users
          /\ users[t.sub].email # t.email)
         => /\ resp'[1].result = "Authentication"
            /\ UNCHANGED users]_vars

\* a refused reset while the user holds an unexpired token for the old address
Wit_C18 ==
    /\ resp[1].op = "reset_password"
    /\ resp[1].result = "Authentication"
    /\ resp[1].user \in DOMAIN users
    /\ \E t \in tokens : /\ t.kind = "reset" /\ t.sub = resp[1].user
                         /\ now < t.exp
                         /\ t.email # users[t.sub].email

(* =================== mockup endpoints that take an id ================== *)
\* GET /mockups/{id} and GET /mockups/{id}/status: one lookup, then the answer
ReadInvoke(r, op) ==
    \E u \in Users, m \in 1..MaxMockups : Invoke(r, op, u, m, 0, "read:find")

ReadFind_anyCaller(r) ==
    /\ req[r].pc = "read:find"
    /\ IF req[r].mid \notin MockupIds
       THEN Return(r, "NotFound")
       ELSE Return(r, "ok")
    /\ UNCHANGED <<credits, mockups, aiCalls>>
    /\ Frame
ReadFind(r) ==
    /\ req[r].pc = "read:find"
    /\ LET m == req[r].mid IN
       IF m \notin MockupIds \/ mockups[m].user # req[r].user
       THEN Return(r, "NotFound")
       ELSE Return(r, "ok")
    /\ UNCHANGED <<credits, mockups, aiCalls>>
    /\ Frame

\* PUT /mockups/{id}; the body names the fields it supplies (exclude_unset)
UpdateInvoke(r) ==
    /\ req[r].pc = "idle"
    /\ opsLeft > 0
    /\ opsLeft' = opsLeft - 1
    /\ \E u \in Users, m \in 1..MaxMockups, update_data \in SUBSET {"name", "logo_color"} :
         /\ req' = [req EXCEPT ![r] = [IdleReq EXCEPT !.pc = "update:find", !.user = u,
                                                      !.mid = m, !.todo = update_data]]
         /\ resp' = [resp EXCEPT ![r] = [NoResp EXCEPT !.op = "update", !.result = "pending",
                                                       !.user = u, !.mid = m]]
    /\ UNCHANGED <<now, ticks, credits, mockups, aiCalls, billvars, authvars, ratevars, catalogvars, svcvars, histvars>>

UpdateFind_anyStatus(r) ==
    /\ req[r].pc = "update:find"
    /\ LET m == req[r].mid IN
       IF m \notin MockupIds \/ mockups[m].user # req[r].user
       THEN Return(r, "NotFound")
       ELSE IF req[r].todo = {}
       THEN Return(r, "ok")
       ELSE Goto(r, "update:update")
    /\ UNCHANGED <<credits, mockups, aiCalls>>
    /\ Frame
UpdateFind(r) ==
    /\ req[r].pc = "update:find"
    /\ LET m == req[r].mid IN
       IF m \notin MockupIds \/ mockups[m].user # req[r].user
       THEN Return(r, "NotFound")
       ELSE IF mockups[m].status = "PROCESSING"
       THEN Return(r, "Validation")
       ELSE IF req[r].todo = {}
       THEN Return(r, "ok")
       ELSE Goto(r, "update:update")
    /\ UNCHANGED <<credits, mockups, aiCalls>>
    /\ Frame

UpdateUpdate(r) ==
    /\ req[r].pc = "update:update"
    /\ LET m == req[r].mid IN
       IF m \notin MockupIds
       THEN /\ Return(r, "error")
            /\ UNCHANGED mockups
       ELSE /\ mockups' = [mockups EXCEPT
                   ![m] = [@ EXCEPT
                       !.name = IF "name" \in req[r].todo THEN "n2" ELSE @,
                       !.logo_color = IF "logo_color" \in req[r].todo THEN "c2" ELSE @,
                       !.updated_at = now]]
            /\ Return(r, "ok")
    /\ UNCHANGED <<credits, aiCalls>>
    /\ Frame

\* one request at a time, over the endpoints addressed by a mockup id
NextOwner ==
    \/ ReadInvoke(1, "get")
    \/ ReadInvoke(1, "status")
    \/ ReadFind(1)
    \/ UpdateInvoke(1)
    \/ UpdateFind(1)
    \/ UpdateUpdate(1)
    \/ GenerateInvoke(1)
    \/ GenerateFind(1)
    \/ GenerateFinish(1)
    \/ RegenerateInvoke(1)
    \/ RegenerateFind(1)
    \/ RegenerateCredits(1)
    \/ RegenerateDebit(1)
    \/ RegenerateReset(1)
    \/ RegenerateFinish(1)
    \/ DeleteInvoke(1)
    \/ DeleteFind(1)
    \/ DeleteDelete(1)

SpecOwner == Init /\ [][NextOwner]_vars

\* C19: get, status, update, generate, regenerate and delete answer a caller
\* who does not own the mockup with the same NotFound as for an id that does
\* not exist, and change no mockup row and no credit row.
Thm_C19 ==
    [][(/\ resp[1].op \in {"get", "status", "update", "generate", "regenerate", "delete"}
        /\ resp[1].result = "pending"
        /\ \/ req[1].mid \notin MockupIds
           \/ mockups[req[1].mid].user # req[1].user)
       => /\ resp'[1].result = "NotFound"
          /\ req'[1].pc = "idle"
          /\ UNCHANGED <<mockups, credits>>]_vars

\* an update or a regeneration refused for a FAILED mockup of another user
Wit_C19 ==
    /\ resp[1].op \in {"update", "regenerate"}
    /\ resp[1].result = "NotFound"
    /\ resp[1].mid \in MockupIds
    /\ mockups[resp[1].mid].user # resp[1].user
    /\ mockups[resp[1].mid].status = "FAILED"
    /\ CreditIds # {}

(* ====================== rate-limiting middleware ======================= *)
\* the routes the runs exercise; "/health" is exempt from limiting
RatePaths == {"/api/v1/auth/login", "/api/v1/auth/register", "/health"}

\* the URL paths of the requests whose configuration is looked up: the two
\* limited auth routes, the mockup collection, the mockup whose id is the
\* word POST, two payment routes, a profile route, the health route
ConfigPaths ==
    RatePaths \cup {"/api/v1/mockups", "/api/v1/mockups/POST", "/api/v1/payments/history",
                    "/api/v1/payments/webhook", "/api/v1/users/me"}
Methods == {"GET", "POST"}

\* path.startswith(prefix), for the prefixes the middleware tests
startswith(path, prefix) ==
    prefix \in CASE path = "/api/v1/auth/login" -> {"/api/v1/auth/login"}
                 [] path = "/api/v1/auth/register" -> {"/api/v1/auth/register"}
                 [] path = "/api/v1/mockups" -> {"/api/v1/mockups"}
                 [] path = "/api/v1/mockups/POST" -> {"/api/v1/mockups"}
                 [] path = "/api/v1/payments/history" -> {"/api/v1/payments"}
                 [] path = "/api/v1/payments/webhook" ->
                        {"/api/v1/payments", "/api/v1/payments/webhook"}
                 [] OTHER -> {}

\* "POST" in path: a test on the text of the URL path
ContainsPOST(path) == path = "/api/v1/mockups/POST"

\* get_rate_limit_config: <<limit, window in seconds>> of a path
get_rate_limit_config(path) ==
    IF startswith(path, "/api/v1/auth/login")
    THEN <<RATE_LIMIT_LOGIN_PER_MINUTE, 60>>
    ELSE IF startswith(path, "/api/v1/auth/register")
    THEN <<RATE_LIMIT_REGISTER_PER_HOUR, 3600>>
    ELSE IF startswith(path, "/api/v1/mockups") /\ ContainsPOST(path)
    THEN <<RATE_LIMIT_MOCKUP_GENERATION_PER_HOUR, 3600>>
    ELSE IF startswith(path, "/api/v1/payments")
    THEN <<RATE_LIMIT_PAYMENTS_PER_HOUR, 3600>>
    ELSE <<RATE_LIMIT_GENERAL_PER_MINUTE, 60>>

\* the requests the middleware passes on without counting
Exempt(path) ==
    \/ path = "/health"
    \/ startswith(path, "/api/v1/payments/webhook")

\* _redis_rate_limit: drop the members scored at or before clock - window,
\* count the rest, add the member named after the current second; the
\* sorted set keeps one member per name
redis_rate_limit(key, limit, window) ==
    LET stored == IF key \in DOMAIN redis_store THEN redis_store[key] ELSE {}
        kept == {t \in stored : t > clock - window}
    IN  [limited |-> Cardinality(kept) >= limit, entry |-> kept \cup {clock}]

\* _memory_rate_limit: <<count, first_request_time>> per key, started again
\* when the first request is more than a window old
memory_rate_limit(key, limit, window) ==
    IF key \in DOMAIN memory_store
    THEN LET count == memory_store[key][1]
             first_request_time == memory_store[key][2]
         IN  IF clock - first_request_time > window
             THEN [limited |-> FALSE, entry |-> <<1, clock>>]
             ELSE IF count >= limit
             THEN [limited |-> TRUE, entry |-> memory_store[key]]
             ELSE [limited |-> FALSE, entry |-> <<count + 1, first_request_time>>]
    ELSE [limited |-> FALSE, entry |-> <<1, clock>>]

\* rate_limit_middleware for one request, keyed rate_limit:{client_id}:{path}:
\* {method}; redis_up tells whether the shared cache answers this request
\* (otherwise the in-memory fallback counts it)
rate_limit_middleware(client_id, method, path, redis_up) ==
    /\ opsLeft > 0
    /\ opsLeft' = opsLeft - 1
    /\ IF Exempt(path)
       THEN UNCHANGED <<redis_store, memory_store, requests>>
       ELSE LET limit == get_rate_limit_config(path)[1]
                window == get_rate_limit_config(path)[2]
                key == <<client_id, path, method>>
                res == IF redis_up THEN redis_rate_limit(key, limit, window)
                                   ELSE memory_rate_limit(key, limit, window)
            IN  /\ IF redis_up
                   THEN /\ redis_store' = (key :> res.entry) @@ redis_store
                        /\ UNCHANGED memory_store
                   ELSE /\ memory_store' = (key :> res.entry) @@ memory_store
                        /\ UNCHANGED redis_store
                /\ requests' = Append(requests,
                       [key |-> key, t |-> clock, limit |-> limit, window |-> window,
                        backend |-> IF redis_up THEN "redis" ELSE "memory",
                        status |-> IF res.limited THEN 429 ELSE 200,
                        retry_after |-> IF res.limited THEN window ELSE 0])
    /\ UNCHANGED <<clock, now, ticks, dbvars, req, resp, aiCalls, billvars, authvars,
                   catalogvars, svcvars, histvars>>

\* time.time() moves on by a second, a minute or an hour
ClockAdvance(seconds) ==
    /\ ticks < MaxTicks
    /\ ticks' = ticks + 1
    /\ clock' = clock + seconds
    /\ UNCHANGED <<now, opsLeft, dbvars, req, resp, aiCalls, billvars, authvars,
                   redis_store, memory_store, requests, catalogvars, svcvars, histvars>>

InitRate ==
    /\ now = 0
    /\ ticks = 0
    /\ opsLeft = MaxRateOps
    /\ credits = <<>>
    /\ mockups = <<>>
    /\ req = [r \in Reqs |-> IdleReq]
    /\ resp = [r \in Reqs |-> NoResp]
    /\ aiCalls = 0
    /\ role = [u \in Users |-> "REGISTERED"]
    /\ payments = <<>>
    /\ intents = <<>>
    /\ subs = <<>>
    /\ NoAuthTraffic

NextRate ==
    \/ \E path \in RatePaths, redis_up \in BOOLEAN : rate_limit_middleware("ip:1", "POST", path, redis_up)
    \/ \E seconds \in {1, 60, 3600} : ClockAdvance(seconds)

SpecRate == InitRate /\ [][NextRate]_vars

\* C20: for a key with limit L and window W, on the shared-cache path and on
\* the in-memory path alike (all requests of the key counted by one of them):
\* the first L requests inside the window opened by the key's first request
\* are admitted, the (L+1)-th inside that window is rejected with 429 and
\* Retry-After W, and a request that comes more than W after the previous
\* request of the key is admitted.
Cex_C20 ==
    \A path \in RatePaths \ {"/health"}, backend \in {"redis", "memory"} :
        LET OfKey(r) == r.key = <<"ip:1", path, "POST">>
            log == SelectSeq(requests, OfKey)
            L == get_rate_limit_config(path)[1]
            W == get_rate_limit_config(path)[2]
        IN  (\A i \in DOMAIN log : log[i].backend = backend)
            => /\ \A i \in DOMAIN log :
                    (i <= L /\ log[i].t < log[1].t + W) => log[i].status = 200
               /\ (Len(log) > L /\ log[L + 1].t < log[1].t + W)
                    => log[L + 1].status = 429 /\ log[L + 1].retry_after = W
               /\ \A i \in DOMAIN log :
                    (i > 1 /\ log[i].t - log[i - 1].t > W) => log[i].status = 200

\* C21: for every key and every time interval as long as the window, at most
\* `limit` requests with that key are admitted inside the interval, on the
\* shared-cache path and on the in-memory path, however many requests share a
\* second.
Cex_C21 ==
    \A path \in RatePaths \ {"/health"}, backend \in {"redis", "memory"} :
        LET OfKey(r) == r.key = <<"ip:1", path, "POST">>
            log == SelectSeq(requests, OfKey)
            L == get_rate_limit_config(path)[1]
            W == get_rate_limit_config(path)[2]
        IN  (\A i \in DOMAIN log : log[i].backend = backend)
            => \A i \in DOMAIN log :
                   Cardinality({j \in DOMAIN log : /\ log[j].status = 200
                                                   /\ log[i].t <= log[j].t
                                                   /\ log[j].t < log[i].t + W}) <= L

\* single requests of every method and path, for the configuration lookup
InitConfig ==
    /\ now = 0
    /\ ticks = 0
    /\ opsLeft = MaxConfigOps
    /\ credits = <<>>
    /\ mockups = <<>>
    /\ req = [r \in Reqs |-> IdleReq]
    /\ resp = [r \in Reqs |-> NoResp]
    /\ aiCalls = 0
    /\ role = [u \in Users |-> "REGISTERED"]
    /\ payments = <<>>
    /\ intents = <<>>
    /\ subs = <<>>
    /\ NoAuthTraffic

NextConfig ==
    \/ \E method \in Methods, path \in ConfigPaths, redis_up \in BOOLEAN :
          rate_limit_middleware("ip:1", method, path, redis_up)
    \/ \E seconds \in {1, 60} : ClockAdvance(seconds)

SpecConfig == InitConfig /\ [][NextConfig]_vars

\* C31: every counted request gets its limit and window from this table:
\* login 5 per 60 s, registration 3 per 3600 s, a POST under the mockups
\* prefix 50 per 3600 s, a payments-prefixed path 10 per 3600 s, every other
\* path 60 per 60 s.
Cex_C31 ==
    \A i \in DOMAIN requests :
        LET path == requests[i].key[2]
            method == requests[i].key[3]
        IN  <<requests[i].limit, requests[i].window>> =
               IF startswith(path, "/api/v1/auth/login") THEN <<5, 60>>
               ELSE IF startswith(path, "/api/v1/auth/register") THEN <<3, 3600>>
               ELSE IF startswith(path, "/api/v1/mockups") /\ method = "POST"
               THEN <<50, 3600>>
               ELSE IF startswith(path, "/api/v1/payments") THEN <<10, 3600>>
               ELSE <<60, 60>>

\* C23: an update of a PROCESSING mockup is rejected with Validation and
\* changes no field; in every other status the update changes exactly the
\* supplied fields, and never the status, the result URL or the error message.
Thm_C23 ==
    [][(resp[1].op = "update" /\ resp[1].result = "pending")
       => LET m == req[1].mid
              Supplied(f) == IF f = "name" THEN "n2" ELSE "c2"
          IN  /\ (/\ m \in MockupIds
                  /\ mockups[m].user = req[1].user
                  /\ mockups[m].status = "PROCESSING")
                 => resp'[1].result = "Validation" /\ UNCHANGED mockups
              /\ DOMAIN mockups' = DOMAIN mockups
              /\ \A k \in DOMAIN mockups :
                   \A f \in DOMAIN mockups[k] \ {"updated_at"} :
                      mockups'[k][f] # mockups[k][f]
                      => /\ k = m
                         /\ f \in req[1].todo
                         /\ mockups[k].status # "PROCESSING"
              /\ (req[1].pc = "update:update" /\ m \in MockupIds)
                 => \A f \in req[1].todo : mockups'[m][f] = Supplied(f)]_vars

\* an accepted update of a COMPLETED mockup that supplied the name only
Wit_C23 ==
    /\ resp[1].op = "update"
    /\ resp[1].result = "ok"
    /\ resp[1].mid \in MockupIds
    /\ mockups[resp[1].mid].name = "n2"
    /\ mockups[resp[1].mid].logo_color = "c1"
    /\ mockups[resp[1].mid].status = "COMPLETED"
    /\ mockups[resp[1].mid].result_image_url = Url

(* ================ the credit batch of a paid subscription ============== *)
InitGrant ==
    /\ now = 0
    /\ ticks = 0
    /\ opsLeft = MaxGrantOps
    /\ credits = <<>>
    /\ mockups = <<>>
    /\ req = [r \in Reqs |-> IdleReq]
    /\ resp = [r \in Reqs |-> NoResp]
    /\ aiCalls = 0
    /\ role = [u \in Users |-> "REGISTERED"]
    /\ payments = <<>>
    /\ intents = <<>>
    /\ subs = <<>>
    /\ NoAuthTraffic

\* purchases, subscription creation and their webhooks; a subscription row is
\* stamped later than every credit row written before it
NextGrant ==
    \/ \E u \in Users, n \in {10, 20} : PurchaseCredits(u, n)
    \/ \E i \in 1..MaxPayments : HandlePaymentSuccess(i)
    \/ \E u \in Users, plan \in Plans, st \in {"active", "incomplete"} :
          /\ \A c \in CreditIds : credits[c].created_at < now
          /\ CreateSubscription(u, plan, st)
    \/ \E k \in 1..MaxSubs : HandleSubscriptionPaymentSuccess(k)
    \/ ClockAdvance(1)
    \/ TickPeriod

SpecGrant == InitGrant /\ [][NextGrant]_vars

\* C26: over subscription creation and any sequence of invoice-paid webhooks
\* for a user's one subscription, the plan's monthly batch of the first paid
\* period is granted exactly once: not twice, and not skipped because another
\* credit of the user was created after the subscription.
Cex_C26 ==
    \A k \in DOMAIN subs :
        (/\ subs[k].status = "ACTIVE"
         /\ \A j \in DOMAIN subs : subs[j].user = subs[k].user => j = k)
        => Cardinality({c \in CreditIds :
                           /\ credits[c].user = subs[k].user
                           /\ credits[c].amount = credits_per_month(subs[k].plan)
                           /\ credits[c].created_at >= subs[k].created_at
                           /\ credits[c].expires_at
                                 = credits[c].created_at + Days(SUBSCRIPTION_PERIOD_DAYS)}) = 1

\* C27: a retry of the same purchase (same user, same package, a second
\* later) reaches the gateway with the idempotency key of the first attempt,
\* so the purchase has at most one payment intent and one Payment row.
Cex_C27 ==
    \A i, j \in DOMAIN intents :
        (/\ intents[i].user_id = intents[j].user_id
         /\ intents[i].credit_amount = intents[j].credit_amount
         /\ intents[j].idempotency_key[3] - intents[i].idempotency_key[3] \in {0, 1})
        => /\ i = j
           /\ Cardinality(PaymentOfIntent(i)) <= 1

ExpireAll(cs) ==
    [c \in DOMAIN cs |-> IF ExpiredUnused(c)
                         THEN [cs[c] EXCEPT !.used = cs[c].amount]
                         ELSE cs[c]]

\* the periodic task, run while no request is in progress
CleanupExpiredCredits(r) ==
    /\ req[r].pc = "idle"
    /\ opsLeft > 0
    /\ opsLeft' = opsLeft - 1
    /\ credits' = ExpireAll(credits)
    /\ resp' = [resp EXCEPT ![r] = [NoResp EXCEPT !.op = "cleanup_expired_credits",
                                                  !.result = "ok"]]
    /\ UNCHANGED <<now, ticks, mockups, req, aiCalls, billvars, authvars, ratevars, catalogvars, svcvars, histvars>>

\* cleanup_database: deletes the FAILED mockups created more than seven days
\* ago, then sweeps the credits
CleanupDatabase(r) ==
    /\ req[r].pc = "idle"
    /\ opsLeft > 0
    /\ opsLeft' = opsLeft - 1
    /\ LET cutoff_date == now - Days(FAILED_RETENTION_DAYS)
           old_failed_mockups == {m \in MockupIds : /\ mockups[m].status = "FAILED"
                                                    /\ mockups[m].created_at < cutoff_date}
       IN  mockups' = [m \in DOMAIN mockups |->
                          IF m \in old_failed_mockups
                          THEN [mockups[m] EXCEPT !.present = FALSE]
                          ELSE mockups[m]]
    /\ credits' = ExpireAll(credits)
    /\ resp' = [resp EXCEPT ![r] = [NoResp EXCEPT !.op = "cleanup_database",
                                                  !.result = "ok"]]
    /\ UNCHANGED <<now, ticks, req, aiCalls, billvars, authvars, ratevars, catalogvars, svcvars, histvars>>

\* ledgers of one or two two-unit batches: unused, partly used or used up;
\* without expiry, or expiring before the first or the second clock step
SweepCreditRows ==
    {[user |-> 1, amount |-> MaxAmount, used |-> k, expires_at |-> e, created_at |-> 0] :
        k \in 0..MaxAmount, e \in {NoExpiry, TickStep - 1, 2 * TickStep - 1}}

SweepMockupRows ==
    {[NewMockup(1, 1, Url, Url) EXCEPT !.status = st, !.created_at = t, !.updated_at = t] :
        st \in {"FAILED", "COMPLETED"}, t \in {0, 0 - Days(FAILED_RETENTION_DAYS)}}

InitSweep ==
    /\ now = 0
    /\ ticks = 0
    /\ opsLeft = MaxSweepOps
    /\ credits \in {<<c>> : c \in SweepCreditRows}
                    \cup {<<c, d>> : c \in SweepCreditRows, d \in SweepCreditRows}
    /\ mockups \in {<<>>} \cup {<<m>> : m \in SweepMockupRows}
    /\ req = [r \in Reqs |-> IdleReq]
    /\ resp = [r \in Reqs |-> NoResp]
    /\ aiCalls = 0
    /\ role = [u \in Users |-> "REGISTERED"]
    /\ payments = <<>>
    /\ intents = <<>>
    /\ subs = <<>>
    /\ NoAuthTraffic

NextSweep ==
    \/ ExpireInvoke(1)
    \/ ExpireFind(1)
    \/ ExpireUpdate(1)
    \/ CleanupExpiredCredits(1)
    \/ CleanupDatabase(1)
    \/ Tick

SpecSweep == InitSweep /\ [][NextSweep]_vars

\* C30: a sweep of the expired credits (expire_old_credits, the
\* cleanup_expired_credits task, cleanup_database) sets used = amount on every
\* credit whose expiry has passed and whose used < amount, deletes no credit
\* row, leaves the unexpired credits and those without expiry as they were,
\* and leaves nothing behind that a second sweep would change.
Thm_C30 ==
    [][LET Passed(c) == credits[c].expires_at # NoExpiry /\ credits[c].expires_at < now
           Due == {c \in CreditIds : Passed(c) /\ credits[c].used < credits[c].amount}
           Swept(row) == [row EXCEPT !.used = row.amount]
       IN  /\ (resp[1].op = "expire_old_credits" /\ resp[1].result = "pending")
              => /\ DOMAIN credits' = DOMAIN credits
                 /\ \A c \in CreditIds :
                      credits'[c] # credits[c]
                      => /\ c \in req[1].todo
                         /\ Passed(c)
                         /\ credits'[c] = Swept(credits[c])
                 /\ (req[1].pc = "expire:find" /\ req'[1] # req[1])
                    => /\ credits' = credits
                       /\ IF Due = {}
                          THEN req'[1] = IdleReq /\ resp'[1].result = "0"
                          ELSE req'[1].todo = Due
                 /\ (req[1].pc = "expire:update" /\ req'[1] # req[1])
                    => \E c \in req[1].todo :
                          /\ credits' = [credits EXCEPT ![c] = Swept(@)]
                          /\ IF req[1].todo = {c}
                             THEN req'[1] = IdleReq /\ resp'[1].result = "swept"
                             ELSE req'[1].todo = req[1].todo \ {c}
           /\ (/\ opsLeft' # opsLeft
               /\ resp'[1].op \in {"cleanup_expired_credits", "cleanup_database"})
              => /\ DOMAIN credits' = DOMAIN credits
                 /\ \A c \in CreditIds :
                      credits'[c] = IF c \in Due THEN Swept(credits[c]) ELSE credits[c]
                 /\ \A c \in DOMAIN credits' :
                      ~(/\ credits'[c].expires_at # NoExpiry
                        /\ credits'[c].expires_at < now'
                        /\ credits'[c].used < credits'[c].amount)]_vars

\* a finished sweep has closed an expired batch and left an open batch
\* without expiry beside it
Wit_C30 ==
    /\ resp[1].op \in {"expire_old_credits", "cleanup_expired_credits", "cleanup_database"}
    /\ resp[1].result \in {"swept", "ok"}
    /\ \E c, d \in CreditIds :
         /\ credits[c].expires_at # NoExpiry
         /\ credits[c].expires_at < now
         /\ credits[c].used = credits[c].amount
         /\ credits[d].expires_at = NoExpiry
         /\ credits[d].used < credits[d].amount

(* ============================ the catalogue ============================ *)
ProductIds == {p \in DOMAIN products : products[p].present}

\* the same count when every product counts as referenced
mockup_count_always(p) == 1

\* db.mockup.count(where={"product_id": product_id})
mockup_count(p) == Cardinality({m \in MockupIds : mockups[m].product_id = p})

\* a handler of the product API runs as one step; its answer is kept in slot 1
CatalogAnswer(op, u, result) ==
    /\ opsLeft > 0
    /\ opsLeft' = opsLeft - 1
    /\ resp' = [resp EXCEPT ![1] = [NoResp EXCEPT !.op = op, !.user = u, !.result = result]]
    /\ UNCHANGED <<now, ticks, credits, mockups, req, aiCalls, billvars, authvars, ratevars,
                   svcvars, histvars>>

\* POST /products (admin only)
ApiCreateProduct(u) ==
    /\ Len(products) < MaxProducts
    /\ IF role[u] # "ADMIN"
       THEN /\ CatalogAnswer("create_product", u, "Forbidden")
            /\ UNCHANGED products
       ELSE /\ products' = Append(products, [present |-> TRUE, is_active |-> TRUE])
            /\ CatalogAnswer("create_product", u, "ok")

\* PUT /products/{product_id} with is_active in the body (admin only)
ApiUpdateProduct(u, p, active) ==
    /\ IF role[u] # "ADMIN"
       THEN /\ CatalogAnswer("update_product", u, "Forbidden")
            /\ UNCHANGED products
       ELSE IF p \notin ProductIds
       THEN /\ CatalogAnswer("update_product", u, "NotFound")
            /\ UNCHANGED products
       ELSE /\ products' = [products EXCEPT ![p].is_active = active]
            /\ CatalogAnswer("update_product", u, "ok")

\* DELETE /products/{product_id} (admin only)
ApiDeleteProduct(u, p) ==
    /\ IF role[u] # "ADMIN"
       THEN /\ CatalogAnswer("delete_product", u, "Forbidden")
            /\ UNCHANGED products
       ELSE IF p \notin ProductIds
       THEN /\ CatalogAnswer("delete_product", u, "NotFound")
            /\ UNCHANGED products
       ELSE IF mockup_count(p) > 0
       THEN /\ products' = [products EXCEPT ![p].is_active = FALSE]
            /\ CatalogAnswer("delete_product", u, "deactivated")
       ELSE /\ products' = [products EXCEPT ![p].present = FALSE]
            /\ CatalogAnswer("delete_product", u, "deleted")

\* ProductModel.delete_product: no lookup of the product first; update and
\* delete of a missing row fail
ModelDeleteProduct(p) ==
    /\ IF p \notin ProductIds
       THEN /\ CatalogAnswer("ProductModel.delete_product", 0, "error")
            /\ UNCHANGED products
       ELSE IF mockup_count(p) > 0
       THEN /\ products' = [products EXCEPT ![p].is_active = FALSE]
            /\ CatalogAnswer("ProductModel.delete_product", 0, "False")
       ELSE /\ products' = [products EXCEPT ![p].present = FALSE]
            /\ CatalogAnswer("ProductModel.delete_product", 0, "True")

\* catalogues of one or two products, active or not, and up to two mockups of
\* user 2 that reference a product or none
InitCatalog ==
    /\ now = 0
    /\ ticks = 0
    /\ opsLeft = MaxCatalogOps
    /\ credits = <<>>
    /\ products \in UNION {[1..n -> [present : {TRUE}, is_active : BOOLEAN]] :
                              n \in 1..MaxProducts}
    /\ mockups \in UNION {[1..n -> {[NewMockup(2, NullId, Url, Url) EXCEPT !.product_id = p] :
                                        p \in {NullId} \cup 1..MaxProducts}] :
                             n \in 0..2}
    /\ req = [r \in Reqs |-> IdleReq]
    /\ resp = [r \in Reqs |-> NoResp]
    /\ aiCalls = 0
    /\ role = [u \in Users |-> IF u = 1 THEN "ADMIN" ELSE "REGISTERED"]
    /\ payments = <<>>
    /\ intents = <<>>
    /\ subs = <<>>
    /\ users = [u \in Users |-> UserRow(u, "pw1")]
    /\ tokens = {}
    /\ IdleLimiter
    /\ NoHistory
    /\ NoCalls

NextCatalog ==
    \/ \E u \in Users : ApiCreateProduct(u)
    \/ \E u \in Users, p \in 1..MaxProducts, active \in BOOLEAN : ApiUpdateProduct(u, p, active)
    \/ \E u \in Users, p \in 1..MaxProducts : ApiDeleteProduct(u, p)
    \/ \E p \in 1..MaxProducts : ModelDeleteProduct(p)
    \/ DeleteInvoke(1)
    \/ DeleteFind(1)
    \/ DeleteDelete(1)

SpecCatalog == InitCatalog /\ [][NextCatalog]_vars

\* C22: deleting a product that no mockup references removes its row;
\* deleting a product that some mockup references sets its active flag to
\* false and keeps the row and every referencing mockup; either way no other
\* product changes.
Thm_C22 ==
    [][LET RefCount(p) == Cardinality({m \in DOMAIN mockups :
                             mockups[m].present /\ mockups[m].product_id = p})
       IN  \A p \in DOMAIN products :
             (/\ products[p].present
              /\ \/ \E u \in Users : role[u] = "ADMIN" /\ ApiDeleteProduct(u, p)
                 \/ ModelDeleteProduct(p))
             => /\ IF RefCount(p) = 0
                   THEN ~products'[p].present
                   ELSE /\ products'[p].present
                        /\ ~products'[p].is_active
                /\ DOMAIN products' = DOMAIN products
                /\ \A q \in DOMAIN products : q # p => products'[q] = products[q]
                /\ mockups' = mockups]_vars

\* a referenced product has been deactivated and is still there, with the
\* mockup that references it, beside a product that was removed
Wit_C22 ==
    /\ resp[1].op \in {"delete_product", "ProductModel.delete_product"}
    /\ resp[1].result \in {"deactivated", "False"}
    /\ \E p, q \in DOMAIN products :
         /\ products[p].present
         /\ ~products[p].is_active
         /\ \E m \in MockupIds : mockups[m].product_id = p
         /\ ~products[q].present

(* ================= core/security: webhook signatures =================== *)
Payloads == {"p1", "p2"}
Secrets == {"s1", "s2"}

\* hmac.new(secret, f"{timestamp}.{payload}", sha256).hexdigest(): one digest
\* for each secret and signed payload, different inputs give different digests
hmac_sha256(secret, timestamp, payload) == <<secret, timestamp, payload>>

\* the elements of a signature header: "t=<int>", "t=" followed by something
\* int() rejects, "v1=<digest>", "v1=" followed by a non-ASCII string
TElement(n) == [kind |-> "t", num |-> n, sig |-> NoSig, ok |-> TRUE]
BadTElement == [kind |-> "t", num |-> 0, sig |-> NoSig, ok |-> FALSE]
V1Element(d) == [kind |-> "v1", num |-> 0, sig |-> d, ok |-> TRUE]
NonAsciiV1 == [kind |-> "v1", num |-> 0, sig |-> NoSig, ok |-> FALSE]

create_webhook_signature(payload, secret, current_time) ==
    <<TElement(current_time), V1Element(hmac_sha256(secret, current_time, payload))>>

\* the loop over the elements: a t= element replaces the timestamp, a v1=
\* element is appended to the signatures, int() raises on a malformed t=
RECURSIVE ParseHeader(_, _, _)
ParseHeader(elements, timestamp, signatures) ==
    IF elements = <<>>
    THEN [raised |-> FALSE, timestamp |-> timestamp, signatures |-> signatures]
    ELSE LET element == Head(elements) IN
         IF element.kind = "t"
         THEN IF ~element.ok
              THEN [raised |-> TRUE, timestamp |-> timestamp, signatures |-> signatures]
              ELSE ParseHeader(Tail(elements), <<element.num>>, signatures)
         ELSE IF element.kind = "v1"
         THEN ParseHeader(Tail(elements), timestamp, Append(signatures, element))
         ELSE ParseHeader(Tail(elements), timestamp, signatures)

\* any(secrets.compare_digest(sig, expected) for sig in signatures):
\* compare_digest raises TypeError on a non-ASCII string
RECURSIVE AnyMatch(_, _)
AnyMatch(signatures, expected_signature) ==
    IF signatures = <<>> THEN "False"
    ELSE IF ~Head(signatures).ok THEN "raised"
    ELSE IF Head(signatures).sig = expected_signature THEN "True"
    ELSE AnyMatch(Tail(signatures), expected_signature)

Abs(n) == IF n < 0 THEN 0 - n ELSE n

\* "abs(current_time - timestamp) > tolerance" rejects
WithinTolerance_pastOnly(current_time, timestamp, tolerance) ==
    current_time - timestamp <= tolerance
WithinTolerance(current_time, timestamp, tolerance) ==
    Abs(current_time - timestamp) <= tolerance

verify_webhook_signature(payload, signature_header, secret, current_time, tolerance) ==
    LET parsed == ParseHeader(signature_header, <<>>, <<>>) IN
    IF parsed.raised THEN FALSE
    ELSE IF parsed.timestamp = <<>> \/ parsed.signatures = <<>> THEN FALSE
    ELSE IF ~WithinTolerance(current_time, parsed.timestamp[1], tolerance) THEN FALSE
    ELSE AnyMatch(parsed.signatures,
                  hmac_sha256(secret, parsed.timestamp[1], payload)) = "True"

\* a sender signs a payload at the current time
CreateWebhookSignature(payload, secret) ==
    /\ hook' = [hook EXCEPT !.header = create_webhook_signature(payload, secret, clock),
                            !.result = "none"]
    /\ UNCHANGED <<now, ticks, opsLeft, dbvars, req, resp, aiCalls, billvars, authvars,
                   ratevars, catalogvars, ai, histvars>>

\* the receiver checks the header it holds against its payload and secret
VerifyWebhookSignature ==
    /\ hook.result = "none"
    /\ hook' = [hook EXCEPT
                  !.current_time = clock,
                  !.result = IF verify_webhook_signature(hook.payload, hook.header,
                                     hook.secret, clock, WEBHOOK_TOLERANCE)
                             THEN "True" ELSE "False"]
    /\ UNCHANGED <<now, ticks, opsLeft, dbvars, req, resp, aiCalls, billvars, authvars,
                   ratevars, catalogvars, ai, histvars>>

\* header elements of the initial headers: timestamps now and 301 s ahead,
\* digests of the receiver's and of other messages
HeaderElements ==
    {TElement(0), TElement(WEBHOOK_TOLERANCE + 1), BadTElement, NonAsciiV1, OtherElement}
    \cup {V1Element(hmac_sha256("s1", 0, "p1")), V1Element(hmac_sha256("s2", 0, "p1")),
          V1Element(hmac_sha256("s1", 0, "p2")),
          V1Element(hmac_sha256("s1", WEBHOOK_TOLERANCE + 1, "p1"))}

MaxHeaderLen == 3

InitHook ==
    /\ now = 0
    /\ ticks = 0
    /\ opsLeft = 0
    /\ credits = <<>>
    /\ mockups = <<>>
    /\ req = [r \in Reqs |-> IdleReq]
    /\ resp = [r \in Reqs |-> NoResp]
    /\ aiCalls = 0
    /\ role = [u \in Users |-> "REGISTERED"]
    /\ payments = <<>>
    /\ intents = <<>>
    /\ subs = <<>>
    /\ users = [u \in Users |-> UserRow(u, "pw1")]
    /\ tokens = {}
    /\ IdleLimiter
    /\ NoHistory
    /\ EmptyCatalog
    /\ ai = NoAi
    /\ hook \in [payload : Payloads, secret : Secrets,
                 header : UNION {[1..n -> HeaderElements] : n \in 0..MaxHeaderLen},
                 current_time : {0}, result : {"none"}]

NextHook ==
    \/ \E payload \in Payloads, secret \in Secrets : CreateWebhookSignature(payload, secret)
    \/ VerifyWebhookSignature
    \/ \E seconds \in {1, WEBHOOK_TOLERANCE - 1, WEBHOOK_TOLERANCE + 1} : ClockAdvance(seconds)

SpecHook == InitHook /\ [][NextHook]_vars

\* C24 as stated: the verification returns true exactly when the header
\* carries a timestamp t with |now - t| <= 300 and a v1 value equal to the
\* HMAC of "t.payload" under the secret.
Orig_C24 ==
    hook.result # "none"
    => (hook.result = "True"
        <=> \E i, j \in DOMAIN hook.header :
              /\ hook.header[i].kind = "t" /\ hook.header[i].ok
              /\ Abs(hook.current_time - hook.header[i].num) <= WEBHOOK_TOLERANCE
              /\ hook.header[j].kind = "v1" /\ hook.header[j].ok
              /\ hook.header[j].sig = <<hook.secret, hook.header[i].num, hook.payload>>)

\* C24: the verification returns true exactly when every t= element of the
\* header is an integer, the last of them is a timestamp t with
\* |now - t| <= 300, and some v1 value equals the HMAC of "t.payload" under
\* the secret with no non-ASCII v1 value before it; a header built by
\* create_webhook_signature verifies exactly when payload and secret are the
\* signer's and its age is at most 300 s (so at 299 s, not at 301 s).
Thm_C24 ==
    hook.result # "none"
    => LET h == hook.header
           ts == {i \in DOMAIN h : h[i].kind = "t"}
           vs == {j \in DOMAIN h : h[j].kind = "v1"}
           last == CHOOSE i \in ts : \A k \in ts : k <= i
           Valid == /\ ts # {}
                    /\ \A i \in ts : h[i].ok
                    /\ Abs(hook.current_time - h[last].num) <= WEBHOOK_TOLERANCE
                    /\ \E j \in vs :
                         /\ h[j].ok
                         /\ h[j].sig = <<hook.secret, h[last].num, hook.payload>>
                         /\ \A k \in vs : k < j => h[k].ok
       IN  /\ hook.result = "True" <=> Valid
           /\ \A p \in Payloads, s \in Secrets, t \in {h[i].num : i \in ts} :
                h = create_webhook_signature(p, s, t)
                => (hook.result = "True"
                    <=> /\ p = hook.payload
                        /\ s = hook.secret
                        /\ Abs(hook.current_time - t) <= WEBHOOK_TOLERANCE)

\* a header built by create_webhook_signature for the receiver's payload and
\* secret has verified at the age of 299 s
Wit_C24 ==
    /\ hook.result = "True"
    /\ hook.current_time >= WEBHOOK_TOLERANCE - 1
    /\ hook.header = create_webhook_signature(hook.payload, hook.secret,
                         hook.current_time - (WEBHOOK_TOLERANCE - 1))

(* ================== services/ai_service: generation ==================== *)
\* outcomes of the remote call: an image, an answer without image link, a
\* link whose download fails, a failed request
RemoteOutcomes == {"image", "no_link", "link_download_fails", "api_error"}

\* AIService._generate_traditional: downloads both images, composites them
\* (apply_logo_to_product returns the product image on any error)
generate_traditional(product_ok, logo_ok) ==
    IF product_ok /\ logo_ok
    THEN [raised |-> "none", image |-> "composite"]
    ELSE [raised |-> "DownloadError", image |-> "none"]

\* AIService._generate_with_piapi: every outcome but an image falls back
generate_with_piapi(remote, product_ok, logo_ok) ==
    IF remote = "image"
    THEN [raised |-> "none", image |-> "remote"]
    ELSE generate_traditional(product_ok, logo_ok)

\* AIService.generate_mockup: result_image is assigned only in the branch
\* "use_ai and self.api_key"; without it image_to_bytes(result_image) reads an
\* unbound local
generate_mockup(use_ai, api_key, remote, product_ok, logo_ok, storage_ok, user_id) ==
    LET result_image == IF use_ai /\ api_key
                        THEN generate_with_piapi(remote, product_ok, logo_ok)
                        ELSE [raised |-> "UnboundLocalError", image |-> "none"]
    IN  IF result_image.raised # "none"
        THEN [status |-> "error", error |-> result_image.raised, path |-> "none",
              url |-> <<>>]
        ELSE IF ~storage_ok
        THEN [status |-> "error", error |-> "StorageError", path |-> result_image.image,
              url |-> <<>>]
        ELSE [status |-> "url", error |-> "none", path |-> result_image.image,
              url |-> IF user_id # 0 THEN <<"mockups", user_id>> ELSE <<"mockups">>]

GenerateMockup ==
    /\ ~ai.called
    /\ ai' = [ai EXCEPT !.called = TRUE,
                        !.result = generate_mockup(ai.use_ai, ai.api_key, ai.remote,
                                       ai.product_ok, ai.logo_ok, ai.storage_ok, ai.user_id)]
    /\ UNCHANGED <<now, ticks, opsLeft, dbvars, req, resp, aiCalls, billvars, authvars,
                   ratevars, catalogvars, hook, histvars>>

InitAI ==
    /\ now = 0
    /\ ticks = 0
    /\ opsLeft = 0
    /\ credits = <<>>
    /\ mockups = <<>>
    /\ req = [r \in Reqs |-> IdleReq]
    /\ resp = [r \in Reqs |-> NoResp]
    /\ aiCalls = 0
    /\ role = [u \in Users |-> "REGISTERED"]
    /\ payments = <<>>
    /\ intents = <<>>
    /\ subs = <<>>
    /\ users = [u \in Users |-> UserRow(u, "pw1")]
    /\ tokens = {}
    /\ IdleLimiter
    /\ NoHistory
    /\ EmptyCatalog
    /\ hook = NoHook
    /\ ai \in [called : {FALSE}, use_ai : BOOLEAN, api_key : BOOLEAN,
               remote : RemoteOutcomes, product_ok : BOOLEAN, logo_ok : BOOLEAN,
               storage_ok : BOOLEAN, user_id : {0} \cup Users,
               result : {NoAi.result}]

NextAI == GenerateMockup

SpecAI == InitAI /\ [][NextAI]_vars

\* C25: without a generation API key, generate_mockup goes through the
\* classical compositing and returns the URL of the stored result; it fails
\* only if a source image cannot be downloaded or the result cannot be stored.
Cex_C25 ==
    (ai.called /\ ~ai.api_key)
    => /\ ai.result.status = "url" => ai.result.path = "composite"
       /\ ai.result.status = "error" => ~(ai.product_ok /\ ai.logo_ok /\ ai.storage_ok)

(* ========================= simulation history ========================== *)
HistoryIds == {e \in DOMAIN history : history[e].present}

\* "except Exception as e: raise HTTPException(status_code=500, ...)" around
\* the whole handler body: the status of the answer, given what the body raised
HandlerStatus(raised) == IF raised = "none" THEN "200" ELSE "500"

\* a handler of the history API runs as one step; its answer is kept in slot 1
HistoryAnswer(op, u, m, raised) ==
    /\ opsLeft > 0
    /\ opsLeft' = opsLeft - 1
    /\ resp' = [resp EXCEPT ![1] = [NoResp EXCEPT !.op = op, !.user = u, !.mid = m,
                                                  !.result = HandlerStatus(raised)]]
    /\ UNCHANGED <<now, ticks, credits, mockups, req, aiCalls, billvars, authvars, ratevars,
                   catalogvars, svcvars>>

\* POST /simulation-history/ by user u with mockup_id and user_id in the body
CreateSimulationHistoryEntry(u, mockup_id, user_id) ==
    LET raised == IF mockup_id \notin MockupIds THEN "404"
                  ELSE IF mockups[mockup_id].user # u THEN "403"
                  ELSE "none"
    IN  /\ HistoryAnswer("create_simulation_history_entry", u, mockup_id, raised)
        /\ IF raised = "none"
           THEN history' = Append(history, [present |-> TRUE, mockup_id |-> mockup_id,
                                            user_id |-> user_id])
           ELSE UNCHANGED history

\* DELETE /simulation-history/{entry_id} by user u
DeleteSimulationHistoryEntry(u, entry_id) ==
    LET raised == IF entry_id \notin HistoryIds THEN "404"
                  ELSE IF history[entry_id].user_id # u /\ role[u] # "ADMIN" THEN "403"
                  ELSE "none"
    IN  /\ HistoryAnswer("delete_simulation_history_entry", u, 0, raised)
        /\ IF raised = "none"
           THEN history' = [history EXCEPT ![entry_id].present = FALSE]
           ELSE UNCHANGED history

\* up to two mockups, of either user; no history yet
InitHistory ==
    /\ now = 0
    /\ ticks = 0
    /\ opsLeft = MaxHistoryOps
    /\ credits = <<>>
    /\ mockups \in UNION {[1..n -> {NewMockup(u, NullId, Url, Url) : u \in Users}] : n \in 0..2}
    /\ req = [r \in Reqs |-> IdleReq]
    /\ resp = [r \in Reqs |-> NoResp]
    /\ aiCalls = 0
    /\ role = [u \in Users |-> IF u = 1 THEN "ADMIN" ELSE "REGISTERED"]
    /\ payments = <<>>
    /\ intents = <<>>
    /\ subs = <<>>
    /\ NoAuthTraffic

NextHistory ==
    \/ \E u \in Users, mockup_id \in 1..2, user_id \in Users :
          CreateSimulationHistoryEntry(u, mockup_id, user_id)
    \/ \E u \in Users, entry_id \in 1..MaxHistoryOps : DeleteSimulationHistoryEntry(u, entry_id)

SpecHistory == InitHistory /\ [][NextHistory]_vars

\* C32: creating a history entry for a mockup that does not exist is answered
\* with status 404, for a mockup of another user with status 403, and in both
\* cases no entry is created.
Cex_C32 ==
    [][\A u \in Users, m \in 1..2 :
         (/\ resp'[1].op = "create_simulation_history_entry"
          /\ resp'[1].user = u /\ resp'[1].mid = m
          /\ opsLeft' # opsLeft
          /\ m \notin MockupIds \/ mockups[m].user # u)
         => /\ history' = history
            /\ resp'[1].result = IF m \notin MockupIds THEN "404" ELSE "403"]_vars

\* C39: every history entry created through the API carries the id of the
\* authenticated caller as its user id.
Cex_C39 ==
    (/\ resp[1].op = "create_simulation_history_entry"
     /\ resp[1].result = "200")
    => history[Len(history)].user_id = resp[1].user

(* ================== repeated payment webhook deliveries ================= *)
\* C33: a payment-succeeded webhook delivered again for an intent whose
\* Payment is already COMPLETED creates no credit row and leaves the Payment
\* COMPLETED, so the purchased credits are granted once.
Cex_C33 ==
    [][\A i \in 1..MaxPayments :
         (/\ HandlePaymentSuccess(i)
          /\ \E p \in PaymentOfIntent(i) : payments[p].status = "COMPLETED")
         => /\ credits' = credits
            /\ payments' = payments]_vars

\* C34: a Payment that is COMPLETED or FAILED keeps that status under every
\* later payment webhook, and each user holds at most as many purchase
\* grants as COMPLETED Payments.
Cex_C34 ==
    [][/\ \A p \in DOMAIN payments :
            payments[p].status \in {"COMPLETED", "FAILED"}
            => payments'[p].status = payments[p].status
       /\ \A u \in Users :
            Cardinality({c \in DOMAIN credits' :
                           /\ credits'[c].user = u
                           /\ credits'[c].expires_at
                                 = credits'[c].created_at + Days(CREDIT_EXPIRY_DAYS)})
              <= Cardinality({p \in DOMAIN payments' :
                                /\ payments'[p].user = u
                                /\ payments'[p].status = "COMPLETED"})]_vars

\* C35: no step of a subscription operation or of a webhook handler changes
\* the role of a user whose role is ADMIN.
Cex_C35 ==
    [][\A u \in Users : role[u] = "ADMIN" => role'[u] = "ADMIN"]_vars

(* ===================== result and error of a mockup ==================== *)
\* C36: in every reachable state a COMPLETED mockup has no error message and
\* a FAILED mockup has no result URL.
Cex_C36 ==
    \A m \in MockupIds :
      /\ mockups[m].status = "COMPLETED" => mockups[m].error_message = NULL
      /\ mockups[m].status = "FAILED" => mockups[m].result_image_url = NULL

(* ================= repeated and concurrent mockup refunds =============== *)
\* one mockup of user 1 for which a unit of credit 1 was consumed, on a
\* grant whose units are all used; only the refund paths run, in two slots
InitRefund ==
    /\ now = 0
    /\ ticks = 0
    /\ opsLeft = MaxOps
    /\ credits \in {<<[user |-> 1, amount |-> a, used |-> a, expires_at |-> NoExpiry,
                        created_at |-> 0]>> : a \in 1..MaxAmount}
    /\ mockups \in {<<[NewMockup(1, 1, Url, Url) EXCEPT !.updated_at = 0]>>,
                    <<[NewMockup(1, 1, Url, Url) EXCEPT !.updated_at = 0,
                                                        !.status = "PROCESSING"]>>,
                    <<[NewMockup(1, 1, Url, Url) EXCEPT !.updated_at = 0,
                                                        !.status = "FAILED",
                                                        !.error_message = "error"]>>}
    /\ req = [r \in Reqs |-> IdleReq]
    /\ resp = [r \in Reqs |-> NoResp]
    /\ aiCalls = 0
    /\ role = [u \in Users |-> "REGISTERED"]
    /\ payments = <<>>
    /\ intents = <<>>
    /\ subs = <<>>
    /\ NoAuthTraffic

NextRefund ==
    \/ \E r \in Reqs : RefundMockupInvoke(r)
    \/ \E r \in Reqs : RefundMockupFind(r)
    \/ \E r \in Reqs : RefundMockupCredit(r)
    \/ \E r \in Reqs : RefundMockupUpdate(r)
    \/ \E r \in Reqs : SweepInvoke(r)
    \/ \E r \in Reqs : SweepFind(r)
    \/ \E r \in Reqs : SweepFail(r)
    \/ \E r \in Reqs : HealthCheckTask(r)
    \/ \E r \in Reqs : TaskInvoke(r)
    \/ \E r \in Reqs : TaskFind(r)
    \/ \E r \in Reqs : TaskProcessing(r)
    \/ \E r \in Reqs : TaskFinish(r)
    \/ \E r \in Reqs : TaskCredit(r)
    \/ \E r \in Reqs : TaskRefund(r)
    \/ \E r \in Reqs : TaskKilled(r)
    \/ Tick

SpecRefund == InitRefund /\ [][NextRefund]_vars

\* C37: the refund paths give the unit consumed for a mockup back at most
\* once in total, also when refund_mockup is repeated or two refund paths
\* run concurrently: on a grant that was fully used, `used` never falls more
\* than one below `amount`.
Cex_C37 ==
    \A m \in MockupIds :
      mockups[m].credit_id \in CreditIds
      => credits[mockups[m].credit_id].used >= credits[mockups[m].credit_id].amount - 1

(* ===================== the end of a rate-limit block =================== *)
\* time.time() between two requests of a client that keeps sending
time_passes(seconds) ==
    /\ ticks < MaxBlockTicks
    /\ ticks' = ticks + 1
    /\ clock' = clock + seconds
    /\ UNCHANGED <<now, opsLeft, dbvars, req, resp, aiCalls, billvars, authvars,
                   redis_store, memory_store, requests, catalogvars, svcvars, histvars>>

InitBlock ==
    /\ now = 0
    /\ ticks = 0
    /\ opsLeft = MaxBlockOps
    /\ credits = <<>>
    /\ mockups = <<>>
    /\ req = [r \in Reqs |-> IdleReq]
    /\ resp = [r \in Reqs |-> NoResp]
    /\ aiCalls = 0
    /\ role = [u \in Users |-> "REGISTERED"]
    /\ payments = <<>>
    /\ intents = <<>>
    /\ subs = <<>>
    /\ NoAuthTraffic

\* one client sending registrations; the shared cache is either up for the
\* whole run or down for the whole run
NextBlock ==
    \/ \E redis_up \in BOOLEAN :
          /\ \A i \in DOMAIN requests :
                requests[i].backend = IF redis_up THEN "redis" ELSE "memory"
          /\ rate_limit_middleware("ip:1", "POST", "/api/v1/auth/register", redis_up)
    \/ \E seconds \in {1, 1800} : time_passes(seconds)

SpecBlock == InitBlock /\ [][NextBlock]_vars

\* C38: a request that comes more than one window after the last admitted
\* request of its key is admitted, on the shared-cache path and on the
\* in-memory path: the rejected requests in between do not prolong the block.
Cex_C38 ==
    \A i \in DOMAIN requests :
      LET admitted == {j \in 1..(i - 1) : /\ requests[j].key = requests[i].key
                                          /\ requests[j].status = 200}
      IN  (/\ admitted # {}
           /\ \A j \in admitted : requests[i].t > requests[j].t + requests[i].window)
          => requests[i].status = 200

====
